---- MODULE Spec2Model ----
(***************************************************************************)
(* Model of the BasScript core line buffer (core/src/buffer.rs) and the    *)
(* shared position type (core/src/model.rs).                               *)
(*                                                                         *)
(* A String is modelled as the sequence of its chars; every char has a     *)
(* UTF-8 width, and the String methods the buffer uses (insert, split_off, *)
(* replace_range) are addressed by byte offset, as in Rust, and panic when *)
(* the offset is not a char boundary.  Positions are 0-based as in the     *)
(* source; TLA+ sequences are 1-based, hence the +1 at every index.        *)
(***************************************************************************)
EXTENDS Integers, Sequences, FiniteSets, TLC

VARIABLES
    lines,      \* Document.lines: the sequence of lines, each a sequence of chars
    op,         \* the constructor or method that ran last
    arg,        \* the position that method was given
    pref,       \* the preferred_column it was given (move_up, move_down)
    input,      \* the chars it was given (insert_char, insert_text)
    before,     \* Document.lines as they were before it ran
    ret,        \* the position it returned
    panicked,   \* TRUE once a method has panicked
    text,       \* the text given to from_text
    out,        \* the text to_text returned
    parsed,         \* EditorState.parsed: one ParsedLine per classified line
    cursor,         \* EditorState.cursor: position and preferred_column
    top_line,       \* EditorState.top_line: the first line the panels show
    visible_lines,  \* the lines the panel body has room for (viewport_lines)
    raw_line,       \* a line given to classify_line, then ParsedLine.raw
    kind_before,    \* the previous_kind given to classify_line
    line_kind,      \* the kind classify_line returned, then ParsedLine.kind
    processed,      \* what ParsedLine::processed_text returned
    text_column,    \* what ParsedLine::processed_column returned
    paths,          \* EditorState.paths: load_path and save_path
    status_message, \* EditorState.status_message
    pending,        \* DialogState.pending: the file dialog that is open
    opened_at,      \* DialogState.opened_at
    last_watchdog_log_at,  \* DialogState.last_watchdog_log_at
    poll_count,     \* DialogState.poll_count
    dialogue_double_space_newline,  \* the setting of EditorState
    keyboard_inputs,  \* the key events handle_text_input reads this frame
    read,           \* how many of them its for loop has read
    edited,         \* the local edited of handle_text_input
    index_column,   \* the column given to char_to_byte_index
    index_byte,     \* what char_to_byte_index returned
    index_char,     \* what byte_to_char_index returned for that
    erased,         \* how many times backspace has been called in a row
    caret_visual,   \* what processed_cursor_visual_from_lines returned
    caret_raw,      \* what processed_raw_column_from_display returned
    changed_lines,  \* the document with one of its lines changed
    changed_parsed  \* what parse_document returned for that

editor == <<parsed, cursor, top_line, visible_lines,
           dialogue_double_space_newline>>

classifier ==
    <<raw_line, kind_before, line_kind, processed, text_column>>

dialog == <<pending, opened_at, last_watchdog_log_at, poll_count>>

files == <<paths, status_message, dialog>>

reader == <<keyboard_inputs, read, edited>>

changed_document == <<changed_lines, changed_parsed>>

direct_calls ==
    <<index_column, index_byte, index_char, erased, caret_visual, caret_raw>>

vars == <<lines, op, arg, pref, input, before, ret, panicked, text, out,
          parsed, cursor, top_line, visible_lines,
          raw_line, kind_before, line_kind, processed, text_column,
          paths, status_message, pending, keyboard_inputs, read,
          edited, opened_at, last_watchdog_log_at, poll_count,
          dialogue_double_space_newline, index_column, index_byte,
          index_char, erased, caret_visual, caret_raw, changed_lines,
          changed_parsed>>

----------------------------------------------------------------------------
(* Bounds *)

MaxLines == 3       \* lines a document may grow to
MaxChars == 2       \* chars a document may hold in total
MaxInput == 2       \* chars of an insert_text argument
MaxTextLen == 4     \* chars of a from_text argument
MaxVisible == 2     \* lines the panel body may have room for
MaxParseLines == 3  \* lines of a text given to the classifier
MaxEvents == 1      \* key events, or keys just pressed, of one frame

----------------------------------------------------------------------------
(* Characters *)

LF == "LF"                  \* '\n'
CR == "CR"                  \* '\r'
EAcute == "e_acute"         \* U+00E9, two bytes in UTF-8
EAcuteUpper == "E_ACUTE"    \* U+00C9, the uppercase of U+00E9
SharpS == "sharp_s"         \* U+00DF, whose uppercase is the two chars SS
TAB == "TAB"                \* '\t'
PrivateUse == "private_use" \* U+E000, three bytes in UTF-8

Char == {"a", EAcute, LF, CR}
InsertChars == {"a", EAcute, LF}

\* usize::MAX, at the width TLC's integers allow
USIZE_MAX == 2147483647

Min(a, b) == IF a < b THEN a ELSE b

len_utf8(ch) ==
    IF ch \in {EAcute, EAcuteUpper, SharpS} THEN 2
    ELSE IF ch = PrivateUse THEN 3
    ELSE 1

RECURSIVE str_len(_)
str_len(s) == IF s = <<>> THEN 0 ELSE len_utf8(Head(s)) + str_len(Tail(s))

\* byte offset at which the char of index i (0-based) starts
char_start(s, i) == str_len(SubSeq(s, 1, i))

is_char_boundary(s, idx) == \E i \in 0..Len(s) : char_start(s, i) = idx

\* number of chars that lie wholly before byte offset idx
chars_before(s, idx) ==
    Cardinality({i \in 1..Len(s) : char_start(s, i) <= idx})

char_count(s) == Len(s)

\* char_to_byte_index as it would be if the column were taken for a byte
\* offset
char_to_byte_index_as_bytes(s, column) == Min(column, str_len(s))

char_to_byte_index(s, column) ==
    IF column = 0 THEN 0
    ELSE IF column < Len(s) THEN char_start(s, column)
    ELSE str_len(s)

\* String::insert(idx, ch)
str_insert(s, idx, ch) ==
    LET k == chars_before(s, idx)
    IN  SubSeq(s, 1, k) \o <<ch>> \o SubSeq(s, k + 1, Len(s))

\* String::split_off(at): <<what stays, what is returned>>
split_off(s, at) ==
    LET k == chars_before(s, at)
    IN  <<SubSeq(s, 1, k), SubSeq(s, k + 1, Len(s))>>

\* String::replace_range(start..end, "")
replace_range(s, start, end) ==
    LET i == chars_before(s, start)
        j == chars_before(s, end)
    IN  SubSeq(s, 1, i) \o SubSeq(s, j + 1, Len(s))

\* Vec::insert(index, element), index 0-based
vec_insert(v, index, e) ==
    SubSeq(v, 1, index) \o <<e>> \o SubSeq(v, index + 1, Len(v))

\* Vec::remove(index), index 0-based: the vector that is left
vec_remove(v, index) ==
    SubSeq(v, 1, index) \o SubSeq(v, index + 2, Len(v))

\* Option<T>
Some(value) == [some |-> TRUE, value |-> value]
None == [some |-> FALSE]

----------------------------------------------------------------------------
(* Position *)

Position(l, c) == [line |-> l, column |-> c]

PositionDefault == Position(0, 0)

Cursor(position, preferred_column) ==
    [position |-> position, preferred_column |-> preferred_column]

CursorDefault == Cursor(PositionDefault, 0)

\* Cursor::set_position
set_position(c, position) == Cursor(position, position.column)

----------------------------------------------------------------------------
(* Document: construction and text conversion *)

Document_new == << <<>> >>

\* #[derive(Default)]: lines is Vec::default(), the empty vector
Document_default == <<>>

\* trim_end_matches as it would be with strip_suffix, which removes one
\* occurrence only
strip_suffix_once(s, ch) ==
    IF s # <<>> /\ s[Len(s)] = ch THEN SubSeq(s, 1, Len(s) - 1) ELSE s

RECURSIVE trim_end_matches(_, _)
trim_end_matches(s, ch) ==
    IF s # <<>> /\ s[Len(s)] = ch
    THEN trim_end_matches(SubSeq(s, 1, Len(s) - 1), ch)
    ELSE s

\* str::split(ch): the segments between the occurrences of ch;
\* a text without ch, the empty text included, is one segment
RECURSIVE split(_, _)
split(s, ch) ==
    IF \A i \in 1..Len(s) : s[i] # ch
    THEN <<s>>
    ELSE LET i == CHOOSE k \in 1..Len(s) :
                      /\ s[k] = ch
                      /\ \A j \in 1..(k - 1) : s[j] # ch
         IN  <<SubSeq(s, 1, i - 1)>> \o split(SubSeq(s, i + 1, Len(s)), ch)

\* from_text as it would be with str::lines(), which yields no final empty
\* segment
from_text_lines(t) ==
    LET segs == split(t, LF)
        n == IF Len(segs) > 1 /\ segs[Len(segs)] = <<>>
             THEN Len(segs) - 1 ELSE Len(segs)
        ls == [i \in 1..n |-> trim_end_matches(segs[i], CR)]
    IN  IF ls = <<>> THEN << <<>> >> ELSE ls

from_text(t) ==
    LET segs == split(t, LF)
        ls == [i \in 1..Len(segs) |-> trim_end_matches(segs[i], CR)]
    IN  IF ls = <<>> THEN << <<>> >> ELSE ls

\* [String]::join(sep)
RECURSIVE join(_, _)
join(v, sep) ==
    IF v = <<>> THEN <<>>
    ELSE IF Len(v) = 1 THEN v[1]
    ELSE v[1] \o <<sep>> \o join(Tail(v), sep)

\* to_text as it would be if every line were terminated, not separated
to_text_terminated(ls) == IF ls = <<>> THEN <<>> ELSE join(ls, LF) \o <<LF>>

to_text(ls) == join(ls, LF)

line_count(ls) == Len(ls)

line_len_chars(ls, l) == IF l < Len(ls) THEN char_count(ls[l + 1]) ELSE 0

----------------------------------------------------------------------------
(* Document: navigation *)

saturating_sub(a, b) == IF a > b THEN a - b ELSE 0

\* clamp_position as it would be without the clamp of the column
clamp_position_line_only(ls, position) ==
    LET last_line == saturating_sub(line_count(ls), 1)
    IN  Position(Min(position.line, last_line), position.column)

clamp_position(ls, position) ==
    LET last_line == saturating_sub(line_count(ls), 1)
        line == Min(position.line, last_line)
        max_col == line_len_chars(ls, line)
    IN  Position(line, Min(position.column, max_col))

\* The result of one Document method: the lines it leaves, the position it
\* returns, and whether it panicked instead of returning.
Returned(ls, position) == [lines |-> ls, ret |-> position, panic |-> FALSE]
Panic(ls, position) == [lines |-> ls, ret |-> position, panic |-> TRUE]

\* move_left as it would be if it went to the end of the line it is on
move_left_same_line(ls, position) ==
    IF position.column > 0
    THEN Returned(ls, Position(position.line, position.column - 1))
    ELSE IF position.line = 0
    THEN Returned(ls, position)
    ELSE Returned(ls, Position(position.line - 1,
                               line_len_chars(ls, position.line)))

move_left(ls, position) ==
    IF position.column > 0
    THEN Returned(ls, Position(position.line, position.column - 1))
    ELSE IF position.line = 0
    THEN Returned(ls, position)
    ELSE LET previous_line == position.line - 1
         IN  Returned(ls, Position(previous_line,
                                   line_len_chars(ls, previous_line)))

\* position.line + 1 on usize: with overflow checks (debug build) the
\* addition panics at usize::MAX, without them (release build) it wraps to 0
move_right(ls, position, overflow_checks) ==
    LET line_len == line_len_chars(ls, position.line)
    IN  IF position.column < line_len
        THEN Returned(ls, Position(position.line, position.column + 1))
        ELSE IF position.line = USIZE_MAX /\ overflow_checks
        THEN Panic(ls, position)
        ELSE LET next_line == IF position.line = USIZE_MAX
                              THEN 0 ELSE position.line + 1
             IN  IF next_line < line_count(ls)
                 THEN Returned(ls, Position(next_line, 0))
                 ELSE Returned(ls, position)

move_up(ls, position, preferred_column) ==
    IF position.line = 0
    THEN Returned(ls, position)
    ELSE LET line == position.line - 1
             column == Min(preferred_column, line_len_chars(ls, line))
         IN  Returned(ls, Position(line, column))

\* move_down as it would be if it kept the column it comes from
move_down_keeps_column(ls, position, preferred_column, overflow_checks) ==
    IF position.line = USIZE_MAX /\ overflow_checks
    THEN Panic(ls, position)
    ELSE LET next_line == IF position.line = USIZE_MAX
                          THEN 0 ELSE position.line + 1
         IN  IF next_line >= line_count(ls)
             THEN Returned(ls, position)
             ELSE Returned(ls, Position(next_line,
                       Min(position.column, line_len_chars(ls, next_line))))

move_down(ls, position, preferred_column, overflow_checks) ==
    IF position.line = USIZE_MAX /\ overflow_checks
    THEN Panic(ls, position)
    ELSE LET next_line == IF position.line = USIZE_MAX
                          THEN 0 ELSE position.line + 1
         IN  IF next_line >= line_count(ls)
             THEN Returned(ls, position)
             ELSE Returned(ls, Position(next_line,
                       Min(preferred_column, line_len_chars(ls, next_line))))

----------------------------------------------------------------------------
(* Document: mutation *)

insert_char(ls, pos, ch) ==
    LET position == clamp_position(ls, pos)
    IN  IF position.line >= Len(ls)
        THEN Panic(ls, position)            \* self.lines[position.line]
        ELSE LET line == ls[position.line + 1]
                 byte_index == char_to_byte_index(line, position.column)
             IN  IF ~is_char_boundary(line, byte_index)
                 THEN Panic(ls, position)   \* String::insert
                 ELSE Returned(
                        [ls EXCEPT ![position.line + 1] =
                                       str_insert(line, byte_index, ch)],
                        Position(position.line, position.column + 1))

insert_newline(ls, pos) ==
    LET position == clamp_position(ls, pos)
    IN  IF position.line >= Len(ls)
        THEN Panic(ls, position)            \* self.lines[position.line]
        ELSE LET current == ls[position.line + 1]
                 byte_index == char_to_byte_index(current, position.column)
             IN  IF ~is_char_boundary(current, byte_index)
                 THEN Panic(ls, position)   \* String::split_off
                 ELSE LET parts == split_off(current, byte_index)
                          kept == [ls EXCEPT ![position.line + 1] = parts[1]]
                      IN  Returned(
                            vec_insert(kept, position.line + 1, parts[2]),
                            Position(position.line + 1, 0))

\* the for loop of insert_text, from an already clamped position
RECURSIVE insert_text_loop(_, _, _)
insert_text_loop(ls, position, chars) ==
    IF chars = <<>>
    THEN Returned(ls, position)
    ELSE LET step == IF Head(chars) = LF
                     THEN insert_newline(ls, position)
                     ELSE insert_char(ls, position, Head(chars))
         IN  IF step.panic
             THEN step
             ELSE insert_text_loop(step.lines, step.ret, Tail(chars))

\* insert_text as it would be if every char were inserted at the position
\* the text started from, not at the position the char before it returned
RECURSIVE insert_text_at_start(_, _, _)
insert_text_at_start(ls, pos, chars) ==
    IF chars = <<>>
    THEN Returned(ls, clamp_position(ls, pos))
    ELSE LET step == IF Head(chars) = LF
                     THEN insert_newline(ls, pos)
                     ELSE insert_char(ls, pos, Head(chars))
         IN  IF step.panic \/ Len(chars) = 1
             THEN step
             ELSE LET rest == insert_text_at_start(step.lines, pos, Tail(chars))
                  IN  IF rest.panic THEN rest
                      ELSE Returned(rest.lines, step.ret)

insert_text(ls, pos, chars) ==
    insert_text_loop(ls, clamp_position(ls, pos), chars)

\* backspace as it would be if previous_len were read after push_str
backspace_len_after_push(ls, pos) ==
    LET position == clamp_position(ls, pos)
    IN  IF position.column > 0
        THEN LET line == ls[position.line + 1]
                 start == char_to_byte_index(line, position.column - 1)
                 end == char_to_byte_index(line, position.column)
             IN  Returned(
                   [ls EXCEPT ![position.line + 1] =
                                  replace_range(line, start, end)],
                   Position(position.line, position.column - 1))
        ELSE IF position.line = 0
        THEN Returned(ls, position)
        ELSE LET current == ls[position.line + 1]
                 removed == vec_remove(ls, position.line)
                 previous_line == position.line - 1
                 merged == [removed EXCEPT ![previous_line + 1] = @ \o current]
             IN  Returned(merged,
                          Position(previous_line,
                                   line_len_chars(merged, previous_line)))

\* backspace as it would be if a merge returned the start of the line
\* merged into
backspace_to_line_start(ls, pos) ==
    LET position == clamp_position(ls, pos)
    IN  IF position.column > 0
        THEN LET line == ls[position.line + 1]
                 start == char_to_byte_index(line, position.column - 1)
                 end == char_to_byte_index(line, position.column)
             IN  Returned(
                   [ls EXCEPT ![position.line + 1] =
                                  replace_range(line, start, end)],
                   Position(position.line, position.column - 1))
        ELSE IF position.line = 0
        THEN Returned(ls, position)
        ELSE LET current == ls[position.line + 1]
                 removed == vec_remove(ls, position.line)
                 previous_line == position.line - 1
             IN  Returned(
                   [removed EXCEPT ![previous_line + 1] = @ \o current],
                   Position(previous_line, 0))

backspace(ls, pos) ==
    LET position == clamp_position(ls, pos)
    IN  IF position.column > 0
        THEN IF position.line >= Len(ls)
             THEN Panic(ls, position)       \* self.lines[position.line]
             ELSE LET line == ls[position.line + 1]
                      start == char_to_byte_index(line, position.column - 1)
                      end == char_to_byte_index(line, position.column)
                  IN  IF \/ ~is_char_boundary(line, start)
                         \/ ~is_char_boundary(line, end)
                         \/ start > end
                      THEN Panic(ls, position)  \* String::replace_range
                      ELSE Returned(
                             [ls EXCEPT ![position.line + 1] =
                                            replace_range(line, start, end)],
                             Position(position.line, position.column - 1))
        ELSE IF position.line = 0
        THEN Returned(ls, position)
        ELSE LET current == ls[position.line + 1]
                 removed == vec_remove(ls, position.line)
                 previous_line == position.line - 1
                 previous_len == line_len_chars(removed, previous_line)
             IN  Returned(
                   [removed EXCEPT ![previous_line + 1] = @ \o current],
                   Position(previous_line, previous_len))

\* delete as it would be if the next line were appended but never removed
delete_without_remove(ls, pos) ==
    LET position == clamp_position(ls, pos)
        line_len == line_len_chars(ls, position.line)
    IN  IF position.column < line_len
        THEN LET line == ls[position.line + 1]
                 start == char_to_byte_index(line, position.column)
                 end == char_to_byte_index(line, position.column + 1)
             IN  Returned([ls EXCEPT ![position.line + 1] =
                                         replace_range(line, start, end)],
                          position)
        ELSE IF position.line + 1 >= line_count(ls)
        THEN Returned(ls, position)
        ELSE Returned([ls EXCEPT ![position.line + 1] =
                                     @ \o ls[position.line + 2]],
                      position)

\* delete as it would be if the test for the last line were
\* position.line >= self.line_count(): on the last line Vec::remove is then
\* asked for a line that does not exist, and panics
delete_past_last_line(ls, pos) ==
    LET position == clamp_position(ls, pos)
        line_len == line_len_chars(ls, position.line)
    IN  IF position.column < line_len
        THEN LET line == ls[position.line + 1]
                 start == char_to_byte_index(line, position.column)
                 end == char_to_byte_index(line, position.column + 1)
             IN  Returned([ls EXCEPT ![position.line + 1] =
                                         replace_range(line, start, end)],
                          position)
        ELSE IF position.line >= line_count(ls)
        THEN Returned(ls, position)
        ELSE IF position.line + 1 >= line_count(ls)
        THEN Panic(ls, position)
        ELSE LET next_line == ls[position.line + 2]
                 removed == vec_remove(ls, position.line + 1)
             IN  Returned([removed EXCEPT ![position.line + 1] =
                                          @ \o next_line],
                          position)

delete(ls, pos) ==
    LET position == clamp_position(ls, pos)
        line_len == line_len_chars(ls, position.line)
    IN  IF position.column < line_len
        THEN LET line == ls[position.line + 1]
                 start == char_to_byte_index(line, position.column)
                 end == char_to_byte_index(line, position.column + 1)
             IN  IF \/ ~is_char_boundary(line, start)
                    \/ ~is_char_boundary(line, end)
                    \/ start > end
                 THEN Panic(ls, position)   \* String::replace_range
                 ELSE Returned(
                        [ls EXCEPT ![position.line + 1] =
                                       replace_range(line, start, end)],
                        position)
        ELSE IF position.line + 1 >= line_count(ls)
        THEN Returned(ls, position)
        ELSE LET next_line == ls[position.line + 2]
                 removed == vec_remove(ls, position.line + 1)
             IN  Returned(
                   [removed EXCEPT ![position.line + 1] = @ \o next_line],
                   position)

----------------------------------------------------------------------------
(* The classifier of parser.rs.  A str is the sequence of its chars; the   *)
(* literals of the source are written char by char.                        *)

LowerLetters ==
    <<"a", "b", "c", "d", "e", "f", "g", "h", "i", "j", "k", "l", "m",
      "n", "o", "p", "q", "r", "s", "t", "u", "v", "w", "x", "y", "z">>

UpperLetters ==
    <<"A", "B", "C", "D", "E", "F", "G", "H", "I", "J", "K", "L", "M",
      "N", "O", "P", "Q", "R", "S", "T", "U", "V", "W", "X", "Y", "Z">>

Digits == {"0", "1", "2", "3", "4", "5", "6", "7", "8", "9"}

is_whitespace(ch) == ch \in {" ", TAB, LF, CR}

is_ascii_uppercase(ch) == \E i \in 1..Len(UpperLetters) : UpperLetters[i] = ch

is_ascii_digit(ch) == ch \in Digits

\* char::to_uppercase: the chars a char becomes, one or more
char_to_uppercase(ch) ==
    IF \E i \in 1..Len(LowerLetters) : LowerLetters[i] = ch
    THEN <<UpperLetters[CHOOSE i \in 1..Len(LowerLetters) :
                            LowerLetters[i] = ch]>>
    ELSE IF ch = EAcute THEN <<EAcuteUpper>>
    ELSE IF ch = SharpS THEN <<"S", "S">>
    ELSE <<ch>>

RECURSIVE to_uppercase(_)
to_uppercase(s) ==
    IF s = <<>> THEN <<>>
    ELSE char_to_uppercase(Head(s)) \o to_uppercase(Tail(s))

RECURSIVE trim_start(_)
trim_start(s) ==
    IF s # <<>> /\ is_whitespace(Head(s)) THEN trim_start(Tail(s)) ELSE s

RECURSIVE trim_end(_)
trim_end(s) ==
    IF s # <<>> /\ is_whitespace(s[Len(s)])
    THEN trim_end(SubSeq(s, 1, Len(s) - 1))
    ELSE s

trim(s) == trim_end(trim_start(s))

starts_with(s, prefix) ==
    Len(prefix) <= Len(s) /\ SubSeq(s, 1, Len(prefix)) = prefix

ends_with(s, suffix) ==
    /\ Len(suffix) <= Len(s)
    /\ SubSeq(s, Len(s) - Len(suffix) + 1, Len(s)) = suffix

\* str::split_whitespace().count(): the runs of chars that are not whitespace
split_whitespace_count(s) ==
    Cardinality({i \in 1..Len(s) :
                    /\ ~is_whitespace(s[i])
                    /\ i = 1 \/ is_whitespace(s[i - 1])})

LineKind ==
    {"SceneHeading", "Action", "Character", "Dialogue", "Parenthetical",
     "Transition", "Empty"}

ParsedLine(kind, raw) == [kind |-> kind, raw |-> raw]

SceneHeadingMarkers ==
    { <<"I", "N", "T", ".">>,
      <<"E", "X", "T", ".">>,
      <<"E", "S", "T", ".">>,
      <<"I", "N", "T", "/", "E", "X", "T", ".">>,
      <<"I", "/", "E", ".">> }

\* is_scene_heading as it would be without the change to uppercase
is_scene_heading_exact_case(line) ==
    LET upper == trim_start(line)
    IN  \E prefix \in SceneHeadingMarkers : starts_with(upper, prefix)

is_scene_heading(line) ==
    LET upper == to_uppercase(trim_start(line))
    IN  \E prefix \in SceneHeadingMarkers : starts_with(upper, prefix)

is_transition(line) ==
    LET upper == to_uppercase(line)
    IN  \/ ends_with(upper, <<" ", "T", "O", ":">>)
        \/ upper = <<"C", "U", "T", " ", "T", "O", ":">>
        \/ upper = <<"F", "A", "D", "E", " ", "O", "U", "T", ".">>
        \/ upper = <<"F", "A", "D", "E", " ", "T", "O", " ",
                     "B", "L", "A", "C", "K", ".">>

CharacterMaxChars == 32
CharacterMaxWords == 4

\* is_character as it would be with the longest cue one char shorter
is_character_shorter(line) ==
    IF Len(line) >= CharacterMaxChars
    THEN FALSE
    ELSE LET words == split_whitespace_count(line)
         IN  IF words = 0 \/ words > CharacterMaxWords
             THEN FALSE
             ELSE IF ~ \A i \in 1..Len(line) :
                          \/ is_ascii_uppercase(line[i])
                          \/ is_ascii_digit(line[i])
                          \/ line[i] \in {" ", ".", "(", ")", "'", "-"}
             THEN FALSE
             ELSE ~ends_with(line, <<":">>)

is_character(line) ==
    IF Len(line) > CharacterMaxChars
    THEN FALSE
    ELSE LET words == split_whitespace_count(line)
         IN  IF words = 0 \/ words > CharacterMaxWords
             THEN FALSE
             ELSE IF ~ \A i \in 1..Len(line) :
                          \/ is_ascii_uppercase(line[i])
                          \/ is_ascii_digit(line[i])
                          \/ line[i] \in {" ", ".", "(", ")", "'", "-"}
             THEN FALSE
             ELSE ~ends_with(line, <<":">>)

is_parenthetical(line) ==
    starts_with(line, <<"(">>) /\ ends_with(line, <<")">>)

\* classify_line as it would be without the look at the kind of the line
\* before for the parenthetical shape
classify_line_ungated(raw, previous_kind) ==
    LET trimmed == trim(raw)
    IN  IF trimmed = <<>> THEN "Empty"
        ELSE IF is_scene_heading(trimmed) THEN "SceneHeading"
        ELSE IF is_transition(trimmed) THEN "Transition"
        ELSE IF is_character(trimmed) THEN "Character"
        ELSE IF is_parenthetical(trimmed) THEN "Parenthetical"
        ELSE IF previous_kind \in {"Character", "Dialogue", "Parenthetical"}
        THEN "Dialogue"
        ELSE "Action"

\* classify_line as it would be with the transition shape tried before the
\* scene marker
classify_line_transition_first(raw, previous_kind) ==
    LET trimmed == trim(raw)
    IN  IF trimmed = <<>> THEN "Empty"
        ELSE IF is_transition(trimmed) THEN "Transition"
        ELSE IF is_scene_heading(trimmed) THEN "SceneHeading"
        ELSE IF is_character(trimmed) THEN "Character"
        ELSE IF /\ is_parenthetical(trimmed)
                /\ previous_kind \in {"Character", "Dialogue", "Parenthetical"}
        THEN "Parenthetical"
        ELSE IF previous_kind \in {"Character", "Dialogue", "Parenthetical"}
        THEN "Dialogue"
        ELSE "Action"

\* classify_line as it would be with a character cue looked for outside
\* a dialogue block only
classify_line_cue_outside_block(raw, previous_kind) ==
    LET trimmed == trim(raw)
        block == previous_kind \in {"Character", "Dialogue", "Parenthetical"}
    IN  IF trimmed = <<>> THEN "Empty"
        ELSE IF is_scene_heading(trimmed) THEN "SceneHeading"
        ELSE IF is_transition(trimmed) THEN "Transition"
        ELSE IF is_character(trimmed) /\ ~block THEN "Character"
        ELSE IF is_parenthetical(trimmed) /\ block THEN "Parenthetical"
        ELSE IF block THEN "Dialogue"
        ELSE "Action"

classify_line(raw, previous_kind) ==
    LET trimmed == trim(raw)
    IN  IF trimmed = <<>> THEN "Empty"
        ELSE IF is_scene_heading(trimmed) THEN "SceneHeading"
        ELSE IF is_transition(trimmed) THEN "Transition"
        ELSE IF is_character(trimmed) THEN "Character"
        ELSE IF /\ is_parenthetical(trimmed)
                /\ previous_kind \in {"Character", "Dialogue", "Parenthetical"}
        THEN "Parenthetical"
        ELSE IF previous_kind \in {"Character", "Dialogue", "Parenthetical"}
        THEN "Dialogue"
        ELSE "Action"

\* the for loop of parse_document: so_far is the Vec parsed, previous_kind
\* the kind of the line before, rest the lines still to come
RECURSIVE parse_document_loop(_, _, _)
parse_document_loop(so_far, previous_kind, rest) ==
    IF rest = <<>> THEN so_far
    ELSE LET kind == classify_line(Head(rest), previous_kind)
         IN  parse_document_loop(Append(so_far, ParsedLine(kind, Head(rest))),
                                 kind, Tail(rest))

\* parse_document as it would be if raw were the line trimmed, as
\* classify_line reads it
parse_document_trimmed(ls) ==
    LET kinds == parse_document_loop(<<>>, "Empty", ls)
    IN  [i \in 1..Len(ls) |-> ParsedLine(kinds[i].kind, trim(ls[i]))]

parse_document(ls) == parse_document_loop(<<>>, "Empty", ls)

----------------------------------------------------------------------------
(* Inputs *)

RECURSIVE SeqsUpTo(_, _)
SeqsUpTo(S, n) ==
    IF n = 0 THEN {<<>>}
    ELSE LET shorter == SeqsUpTo(S, n - 1)
         IN  shorter \cup {Append(s, x) : s \in shorter, x \in S}

RECURSIVE total_chars(_)
total_chars(ls) ==
    IF ls = <<>> THEN 0 ELSE Len(Head(ls)) + total_chars(Tail(ls))

InBounds(ls) == Len(ls) <= MaxLines /\ total_chars(ls) <= MaxChars

\* argument positions: in range, past the range (of every document that has
\* fewer lines, or a shorter line, than the bounds allow), and usize::MAX
Positions ==
    {Position(l, c) : l \in (0..(MaxLines - 1)) \cup {USIZE_MAX},
                      c \in 0..MaxChars}

PreferredColumns == 0..MaxChars

Inputs == SeqsUpTo(InsertChars, MaxInput)

Texts == SeqsUpTo(Char, MaxTextLen)

\* the texts a document within the bounds is loaded from
InitTexts == SeqsUpTo(InsertChars, MaxChars + MaxLines - 1)

----------------------------------------------------------------------------
(* The buffer under a caller that constructs a Document and then issues    *)
(* one method call at a time, as the tests of buffer.rs do.  A call        *)
(* records its name and arguments (op, arg, pref, input), the lines before *)
(* it, the lines after it and the position it returned; the caller then    *)
(* takes the result (Resume) and is free to issue the next call.  A panic  *)
(* aborts the caller: no step follows it.                                  *)

Constructors == {"new", "default", "from_text"}

\* no editor runs: the variables of EditorState keep these values
NoEditor ==
    /\ parsed = <<>>
    /\ cursor = CursorDefault
    /\ top_line = 0
    /\ visible_lines = 1
    /\ dialogue_double_space_newline = FALSE

\* outside the editor there is no EditorState and no DialogState
NoFiles ==
    /\ paths = <<>>
    /\ status_message = <<>>
    /\ pending = "None"
    /\ opened_at = None
    /\ last_watchdog_log_at = None
    /\ poll_count = 0

\* handle_text_input is not running
NoReader ==
    /\ keyboard_inputs = <<>>
    /\ read = 0
    /\ edited = FALSE

\* no second document is compared with the first
NoChange ==
    /\ changed_lines = <<>>
    /\ changed_parsed = <<>>

\* none of the functions checked on their own has been called
NoDirectCalls ==
    /\ index_column = 0
    /\ index_byte = 0
    /\ index_char = 0
    /\ erased = 0
    /\ caret_visual = None
    /\ caret_raw = 0

\* no line is being classified: the variables of the classifier keep these
NoClassifier ==
    /\ raw_line = <<>>
    /\ kind_before = "Empty"
    /\ line_kind = "Empty"
    /\ processed = <<>>
    /\ text_column = 0

Init ==
    /\ \/ lines = Document_new /\ op = "new"
       \/ lines = Document_default /\ op = "default"
       \/ /\ lines \in {ls \in {from_text(t) : t \in InitTexts} : InBounds(ls)}
          /\ op = "from_text"
    /\ arg = PositionDefault
    /\ pref = 0
    /\ input = <<>>
    /\ before = lines
    /\ ret = PositionDefault
    /\ panicked = FALSE
    /\ text = <<>>
    /\ out = <<>>
    /\ NoEditor
    /\ NoFiles
    /\ NoClassifier
    /\ NoReader
    /\ NoDirectCalls
    /\ NoChange

Ready == ~panicked /\ op \in Constructors \cup {"ready"}

Call(name, position, preferred_column, chars, result) ==
    \E r \in {result} :
        /\ InBounds(r.lines)
        /\ op' = name
        /\ arg' = position
        /\ pref' = preferred_column
        /\ input' = chars
        /\ before' = lines
        /\ lines' = r.lines
        /\ ret' = r.ret
        /\ panicked' = r.panic
        /\ UNCHANGED <<text, out, editor, classifier, files, reader, direct_calls,
                   changed_document>>

\* the build's overflow-checks setting matters only where an addition
\* overflows
OverflowChecks(position) ==
    IF position.line = USIZE_MAX THEN BOOLEAN ELSE {TRUE}

ClampPosition ==
    /\ Ready
    /\ \E p \in Positions :
        Call("clamp_position", p, 0, <<>>,
             Returned(lines, clamp_position(lines, p)))

MoveLeft ==
    /\ Ready
    /\ \E p \in Positions :
        Call("move_left", p, 0, <<>>, move_left(lines, p))

MoveRight ==
    /\ Ready
    /\ \E p \in Positions : \E overflow_checks \in OverflowChecks(p) :
        Call("move_right", p, 0, <<>>, move_right(lines, p, overflow_checks))

MoveUp ==
    /\ Ready
    /\ \E p \in Positions, c \in PreferredColumns :
        Call("move_up", p, c, <<>>, move_up(lines, p, c))

MoveDown ==
    /\ Ready
    /\ \E p \in Positions, c \in PreferredColumns :
        \E overflow_checks \in OverflowChecks(p) :
            Call("move_down", p, c, <<>>,
                 move_down(lines, p, c, overflow_checks))

InsertChar ==
    /\ Ready
    /\ \E p \in Positions, ch \in InsertChars :
        Call("insert_char", p, 0, <<ch>>, insert_char(lines, p, ch))

InsertText ==
    /\ Ready
    /\ \E p \in Positions, chars \in Inputs :
        Call("insert_text", p, 0, chars, insert_text(lines, p, chars))

InsertNewline ==
    /\ Ready
    /\ \E p \in Positions :
        Call("insert_newline", p, 0, <<>>, insert_newline(lines, p))

Backspace ==
    /\ Ready
    /\ \E p \in Positions :
        Call("backspace", p, 0, <<>>, backspace(lines, p))

Delete ==
    /\ Ready
    /\ \E p \in Positions : Call("delete", p, 0, <<>>, delete(lines, p))

Resume ==
    /\ ~panicked
    /\ op \notin Constructors \cup {"ready"}
    /\ op' = "ready"
    /\ arg' = PositionDefault
    /\ pref' = 0
    /\ input' = <<>>
    /\ before' = lines
    /\ ret' = PositionDefault
    /\ UNCHANGED <<lines, panicked, text, out, editor, classifier, files, reader,
                   direct_calls, changed_document>>

Next ==
    \/ ClampPosition
    \/ MoveLeft
    \/ MoveRight
    \/ MoveUp
    \/ MoveDown
    \/ InsertChar
    \/ InsertText
    \/ InsertNewline
    \/ Backspace
    \/ Delete
    \/ Resume

Spec == Init /\ [][Next]_vars

----------------------------------------------------------------------------
(* Text conversion as a pipeline over a bounded set of texts:              *)
(* text -> from_text -> to_text -> from_text again.                        *)

InitText ==
    /\ text \in Texts
    /\ op = "text"
    /\ lines = Document_default
    /\ out = <<>>
    /\ arg = PositionDefault
    /\ pref = 0
    /\ input = <<>>
    /\ before = <<>>
    /\ ret = PositionDefault
    /\ panicked = FALSE
    /\ NoEditor
    /\ NoFiles
    /\ NoClassifier
    /\ NoReader
    /\ NoDirectCalls
    /\ NoChange

FromText ==
    /\ op = "text"
    /\ op' = "from_text"
    /\ lines' = from_text(text)
    /\ UNCHANGED <<arg, pref, input, before, ret, panicked, text, out, editor,
                   classifier, files, reader, direct_calls, changed_document>>

ToText ==
    /\ op = "from_text"
    /\ op' = "to_text"
    /\ out' = to_text(lines)
    /\ UNCHANGED <<lines, arg, pref, input, before, ret, panicked, text, editor,
                   classifier, files, reader, direct_calls, changed_document>>

\* load of what save wrote
Reload ==
    /\ op = "to_text"
    /\ op' = "reload"
    /\ before' = lines
    /\ lines' = from_text(out)
    /\ UNCHANGED <<arg, pref, input, ret, panicked, text, out, editor, classifier,
                   files, reader, direct_calls, changed_document>>

NextText ==
    \/ FromText
    \/ ToText
    \/ Reload

SpecText == InitText /\ [][NextText]_vars

----------------------------------------------------------------------------
(* The classifier under a caller that makes a Document from a text and     *)
(* has it classified, as the tests of parser.rs do.                        *)

\* lines of each kind: empty, an action within whitespace, a character
\* cue, a parenthetical
ParseLines ==
    { <<>>, <<" ", "a", " ">>, <<"A">>, <<"(", "a", ")">>, <<"(", "A", ")">>,
      <<"I", "N", "T", ".", " ", "T", "O", ":">>,
      <<"F", "A", "D", "E", " ", "O", "U", "T", ".">>,
      <<"C", "U", "T", " ", "T", "O", ":">> }

ParseTexts == {join(ls, LF) : ls \in SeqsUpTo(ParseLines, MaxParseLines)}

InitParse ==
    /\ text \in ParseTexts
    /\ op = "text"
    /\ lines = Document_default
    /\ out = <<>>
    /\ arg = PositionDefault
    /\ pref = 0
    /\ input = <<>>
    /\ before = <<>>
    /\ ret = PositionDefault
    /\ panicked = FALSE
    /\ NoEditor
    /\ NoFiles
    /\ NoClassifier
    /\ NoReader
    /\ NoDirectCalls
    /\ NoChange

ParseDocument ==
    /\ op = "from_text"
    /\ op' = "parse_document"
    /\ before' = lines
    /\ parsed' = parse_document(lines)
    /\ UNCHANGED <<lines, arg, pref, input, ret, panicked, text, out, cursor,
                   top_line, visible_lines, classifier, files, reader,
                   dialogue_double_space_newline, direct_calls,
                   changed_document>>

NextParse ==
    \/ FromText
    \/ ParseDocument

SpecParse == InitParse /\ [][NextParse]_vars

----------------------------------------------------------------------------
(* The classifier on two documents: a document is classified, one of its   *)
(* lines is changed, and the changed document is classified too.           *)

MaxChangeLines == 3  \* lines of the document

\* a line of each kind: empty, action or dialogue, a character cue, a
\* parenthetical, a scene heading, a transition
ChangeLines ==
    { <<>>, <<"a">>, <<"A">>, <<"(", "a", ")">>, <<"I", "N", "T", ".">>,
      <<"C", "U", "T", " ", "T", "O", ":">> }

ChangeTexts ==
    {join(ls, LF) : ls \in SeqsUpTo(ChangeLines, MaxChangeLines) \ {<<>>}}

InitChange ==
    /\ text \in ChangeTexts
    /\ lines = from_text(text)
    /\ op = "from_text"
    /\ out = <<>>
    /\ arg = PositionDefault
    /\ pref = 0
    /\ input = <<>>
    /\ before = <<>>
    /\ ret = PositionDefault
    /\ panicked = FALSE
    /\ NoEditor
    /\ NoFiles
    /\ NoClassifier
    /\ NoReader
    /\ NoDirectCalls
    /\ NoChange

\* the line arg.line of the document is given another text
ChangeLine ==
    /\ op = "parse_document"
    /\ op' = "change_line"
    /\ \E i \in 1..Len(lines) :
          \E line \in ChangeLines \ {lines[i]} :
              /\ arg' = Position(i - 1, 0)
              /\ changed_lines' = [lines EXCEPT ![i] = line]
    /\ UNCHANGED <<lines, pref, input, before, ret, panicked, text, out,
                   editor, classifier, files, reader, direct_calls,
                   changed_parsed>>

ParseChangedDocument ==
    /\ op = "change_line"
    /\ op' = "parse_changed_document"
    /\ changed_parsed' = parse_document(changed_lines)
    /\ UNCHANGED <<lines, arg, pref, input, before, ret, panicked, text,
                   out, editor, classifier, files, reader, direct_calls,
                   changed_lines>>

NextChange ==
    \/ ParseDocument
    \/ ChangeLine
    \/ ParseChangedDocument

SpecChange == InitChange /\ [][NextChange]_vars


(* The handlers work on a record of the fields of EditorState they use,    *)
(* together with their locals: changed is the edited or moved flag of the *)
(* handler, key the key it handled last, was the cursor before that key,   *)
(* panic whether a Document method panicked.                               *)

Max(a, b) == IF a > b THEN a ELSE b

saturating_add(a, b) == IF a + b > USIZE_MAX THEN USIZE_MAX ELSE a + b

EditorState(document, parsed_lines, at, top) ==
    [document |-> document, parsed |-> parsed_lines, cursor |-> at,
     top_line |-> top, changed |-> FALSE, key |-> "none", was |-> at,
     panic |-> FALSE]

\* reparse as it would be if it left the parsed view as it is
reparse_skipped(state) == state

reparse(state) == [state EXCEPT !.parsed = parse_document(state.document)]

max_top_line(state, visible) ==
    saturating_sub(line_count(state.document), Max(visible, 1))

clamp_scroll(state, visible) ==
    [state EXCEPT !.top_line = Min(@, max_top_line(state, visible))]

ensure_cursor_visible(state, visible) ==
    LET line == state.cursor.position.line
        scrolled ==
            IF line < state.top_line
            THEN [state EXCEPT !.top_line = line]
            ELSE IF line >= state.top_line + visible
            THEN [state EXCEPT !.top_line =
                      saturating_sub(line, saturating_sub(visible, 1))]
            ELSE state
    IN  clamp_scroll(scrolled, visible)

set_cursor(state, position, update_preferred) ==
    LET clamped == clamp_position(state.document, position)
    IN  IF update_preferred
        THEN [state EXCEPT !.cursor = set_position(@, clamped)]
        ELSE [state EXCEPT !.cursor.position = clamped]

\* what every key of the two handlers does once the Document method it
\* calls has run to r: set_cursor(next, update_preferred), and the flag
key_handled(state, key, r, update_preferred) ==
    IF r.panic
    THEN [state EXCEPT !.panic = TRUE]
    ELSE set_cursor([state EXCEPT !.document = r.lines,
                                  !.changed = TRUE,
                                  !.key = key,
                                  !.was = state.cursor],
                    r.ret, update_preferred)

is_ascii_control(ch) == ch \in {TAB, LF, CR}

is_printable_char(chr) == chr # PrivateUse /\ ~is_ascii_control(chr)

KeyboardInput(logical_key, pressed, chars) ==
    [logical_key |-> logical_key, pressed |-> pressed, text |-> chars]

\* the body of the for loop of handle_text_input
handle_text_input_event(state, event) ==
    LET document == state.document
        cursor_pos == state.cursor.position
    IN  IF ~event.pressed
        THEN state
        ELSE IF event.logical_key = "Enter"
        THEN key_handled(state, "Enter",
                         insert_newline(document, cursor_pos), TRUE)
        ELSE IF event.logical_key = "Backspace"
        THEN key_handled(state, "Backspace",
                         backspace(document, cursor_pos), TRUE)
        ELSE IF event.logical_key = "Delete"
        THEN key_handled(state, "Delete",
                         delete(document, cursor_pos), FALSE)
        ELSE IF \A i \in 1..Len(event.text) : is_printable_char(event.text[i])
        THEN key_handled(state, "Character",
                         insert_text(document, cursor_pos, event.text), TRUE)
        ELSE state

\* the keys of handle_navigation_input, in the order it asks for them
NavigationKeys ==
    <<"ArrowLeft", "ArrowRight", "ArrowUp", "ArrowDown",
      "Home", "End", "PageUp", "PageDown">>

\* one if of handle_navigation_input
handle_navigation_key(state, key, visible, overflow_checks) ==
    LET document == state.document
        position == state.cursor.position
        preferred_column == state.cursor.preferred_column
        page_step == Max(saturating_sub(visible, 1), 1)
    IN  IF key = "ArrowLeft"
        THEN key_handled(state, key, move_left(document, position), TRUE)
        ELSE IF key = "ArrowRight"
        THEN key_handled(state, key,
                         move_right(document, position, overflow_checks), TRUE)
        ELSE IF key = "ArrowUp"
        THEN key_handled(state, key,
                         move_up(document, position, preferred_column), FALSE)
        ELSE IF key = "ArrowDown"
        THEN key_handled(state, key,
                         move_down(document, position, preferred_column,
                                   overflow_checks), FALSE)
        ELSE IF key = "Home"
        THEN key_handled(state, key,
                         Returned(document, Position(position.line, 0)), TRUE)
        ELSE IF key = "End"
        THEN key_handled(state, key,
                         Returned(document,
                                  Position(position.line,
                                           line_len_chars(document,
                                                          position.line))),
                         TRUE)
        ELSE IF key = "PageUp"
        THEN LET new_line == saturating_sub(position.line, page_step)
                 column == Min(preferred_column,
                               line_len_chars(document, new_line))
             IN  key_handled(state, key,
                             Returned(document, Position(new_line, column)),
                             FALSE)
        ELSE LET last_line == saturating_sub(line_count(document), 1)
                 new_line == Min(saturating_add(position.line, page_step),
                                 last_line)
                 column == Min(preferred_column,
                               line_len_chars(document, new_line))
             IN  key_handled(state, key,
                             Returned(document, Position(new_line, column)),
                             FALSE)

RECURSIVE handle_text_input_loop(_, _)
handle_text_input_loop(state, events) ==
    IF events = <<>> \/ state.panic
    THEN state
    ELSE handle_text_input_loop(handle_text_input_event(state, Head(events)),
                                Tail(events))

\* modifier: Control or Super is held
handle_text_input(state, modifier, events, visible) ==
    IF modifier
    THEN state
    ELSE LET after == handle_text_input_loop(state, events)
         IN  IF after.changed /\ ~after.panic
             THEN ensure_cursor_visible(reparse(after), visible)
             ELSE after

\* the ifs of handle_navigation_input from the i-th on, in their order
RECURSIVE handle_navigation_input_from(_, _, _, _, _)
handle_navigation_input_from(state, i, just_pressed, visible, overflow_checks) ==
    IF i > Len(NavigationKeys) \/ state.panic
    THEN state
    ELSE handle_navigation_input_from(
             IF NavigationKeys[i] \in just_pressed
             THEN handle_navigation_key(state, NavigationKeys[i], visible,
                                        overflow_checks)
             ELSE state,
             i + 1, just_pressed, visible, overflow_checks)

handle_navigation_input(state, just_pressed, visible, overflow_checks) ==
    LET after == handle_navigation_input_from(state, 1, just_pressed, visible,
                                              overflow_checks)
    IN  IF after.changed /\ ~after.panic
        THEN ensure_cursor_visible(after, visible)
        ELSE after

\* the texts of the key events: a letter, and a char that is not printable
TypedTexts == { <<"a">>, <<TAB>> }

\* the key events of a frame: keys pressed, and a key released
KeyEvents ==
    {KeyboardInput(k, TRUE, <<>>) : k \in {"Enter", "Backspace", "Delete"}}
        \cup {KeyboardInput("Character", TRUE, t) : t \in TypedTexts}
        \cup {KeyboardInput("Enter", FALSE, <<>>)}

\* what handle_text_input may find in a frame: Control or Super held, or
\* up to MaxEvents key events to read
TextInputs ==
    {[modifier |-> TRUE, events |-> <<>>]}
        \cup {[modifier |-> FALSE, events |-> events] :
                events \in SeqsUpTo(KeyEvents, MaxEvents)}

\* what handle_navigation_input may find in a frame: up to MaxEvents keys
\* just pressed
NavigationInputs ==
    {just_pressed \in SUBSET {NavigationKeys[i] : i \in 1..Len(NavigationKeys)} :
        Cardinality(just_pressed) <= MaxEvents}

\* the documents Document::load gives the editor, within the bounds
LoadedDocuments ==
    {ls \in {from_text(t) : t \in SeqsUpTo({"a", LF}, MaxChars + MaxLines - 1)} :
        InBounds(ls)}

ViewportLines == 1..MaxVisible

DEFAULT_LOAD_PATH == "docs/humanDOC.md"
DEFAULT_SAVE_PATH == "scripts/session.fountain"

DocumentPath(load_path, save_path) ==
    [load_path |-> load_path, save_path |-> save_path]

\* the io::Error of a load or save that fails, as the messages show it
IoError == "error"

\* what Document::load returns: Err, or Ok of the document of the text read
LoadResults ==
    {[ok |-> FALSE, document |-> <<>>]}
        \cup {[ok |-> TRUE, document |-> ls] : ls \in LoadedDocuments}

\* DialogState and the time Instant::now() returns, which is not followed
DialogState(kind, opened, logged, polls) ==
    [pending |-> kind, opened_at |-> opened,
     last_watchdog_log_at |-> logged, poll_count |-> polls]

DialogStateDefault == DialogState("None", None, None, 0)

Now == "Instant"

\* EditorState::from_world: the document of the default load path, or a
\* new one when it cannot be loaded; results is what Document::load may
\* return for the default path and settings what load_persistent_settings
\* may
from_world(results, settings) ==
    /\ \E loaded \in results :
          /\ lines = (IF loaded.ok THEN loaded.document ELSE Document_new)
          /\ status_message =
                (IF loaded.ok
                 THEN <<"Loaded ", DEFAULT_LOAD_PATH>>
                 ELSE <<"Could not load ", DEFAULT_LOAD_PATH, " (", IoError,
                        "). Started empty document.">>)
    /\ paths = DocumentPath(DEFAULT_LOAD_PATH, DEFAULT_SAVE_PATH)
    /\ pending = DialogStateDefault.pending
    /\ opened_at = DialogStateDefault.opened_at
    /\ last_watchdog_log_at = DialogStateDefault.last_watchdog_log_at
    /\ poll_count = DialogStateDefault.poll_count
    /\ dialogue_double_space_newline \in settings
    /\ parsed = parse_document(lines)
    /\ cursor = CursorDefault
    /\ top_line = 0
    /\ visible_lines \in ViewportLines
    /\ op = "from_world"
    /\ arg = PositionDefault
    /\ pref = 0
    /\ input = <<>>
    /\ before = <<>>
    /\ ret = PositionDefault
    /\ panicked = FALSE
    /\ text = <<>>
    /\ out = <<>>
    /\ NoClassifier
    /\ NoReader
    /\ NoDirectCalls
    /\ NoChange

\* the settings file is missing or has the setting off
SettingsOff == {FALSE}

InitEditor == from_world(LoadResults, SettingsOff)

\* the fields of EditorState as a handler finds them
Self == EditorState(lines, parsed, cursor, top_line)

\* a handler has run from the fields of EditorState to the record after:
\* the fields are written back; op is the key it handled last, arg and pref
\* the cursor before that key
Handled(after) ==
    \E h \in {after} :
        /\ InBounds(h.document)
        /\ h.changed \/ h.panic
        /\ lines' = h.document
        /\ parsed' = h.parsed
        /\ cursor' = h.cursor
        /\ top_line' = h.top_line
        /\ panicked' = h.panic
        /\ op' = h.key
        /\ arg' = h.was.position
        /\ pref' = h.was.preferred_column
        /\ UNCHANGED <<input, before, ret, text, out, visible_lines, classifier, files,
                   reader,
                   dialogue_double_space_newline, direct_calls,
                   changed_document>>

\* between two frames: no handler runs
Idle == ~panicked /\ op \in {"from_world", "idle"}

HandleTextInput ==
    /\ Idle
    /\ \E frame \in TextInputs :
          Handled(handle_text_input(Self, frame.modifier, frame.events,
                                    visible_lines))

HandleNavigationInput ==
    /\ Idle
    /\ \E just_pressed \in NavigationInputs,
          overflow_checks \in OverflowChecks(cursor.position) :
          Handled(handle_navigation_input(Self, just_pressed, visible_lines,
                                          overflow_checks))

\* the window is resized: the panel body has room for another number of lines
Resize ==
    /\ Idle
    /\ \E visible \in ViewportLines \ {visible_lines} :
          visible_lines' = visible
    /\ op' = "resize"
    /\ arg' = cursor.position
    /\ pref' = cursor.preferred_column
    /\ UNCHANGED <<lines, parsed, cursor, top_line, input, before, ret,
                   panicked, text, out, classifier, files, reader,
                   dialogue_double_space_newline, direct_calls,
                   changed_document>>

\* the frame is over: the handlers wait for the input of the next one
EndFrame ==
    /\ ~panicked
    /\ op \notin {"from_world", "idle"}
    /\ op' = "idle"
    /\ arg' = PositionDefault
    /\ pref' = 0
    /\ UNCHANGED <<lines, parsed, cursor, top_line, visible_lines, input,
                   before, ret, panicked, text, out, classifier, files,
                   reader,
                   dialogue_double_space_newline, direct_calls,
                   changed_document>>

NextEditor ==
    \/ HandleTextInput
    \/ HandleNavigationInput
    \/ Resize
    \/ EndFrame

SpecEditor == InitEditor /\ [][NextEditor]_vars

----------------------------------------------------------------------------
(* ParsedLine of core/src/model.rs: the formatting of a classified line *)

RECURSIVE repeat(_, _)
repeat(s, n) == IF n = 0 THEN <<>> ELSE s \o repeat(s, n - 1)

\* indent_width as it would be with the widths of Dialogue and Parenthetical
\* taken for each other
indent_width_swapped(self) ==
    CASE self.kind = "SceneHeading" -> 2
      [] self.kind = "Action" -> 0
      [] self.kind = "Character" -> 24
      [] self.kind = "Dialogue" -> 18
      [] self.kind = "Parenthetical" -> 12
      [] self.kind = "Transition" -> 40
      [] self.kind = "Empty" -> 0

indent_width(self) ==
    CASE self.kind = "SceneHeading" -> 2
      [] self.kind = "Action" -> 0
      [] self.kind = "Character" -> 24
      [] self.kind = "Dialogue" -> 12
      [] self.kind = "Parenthetical" -> 18
      [] self.kind = "Transition" -> 40
      [] self.kind = "Empty" -> 0

processed_text(self) ==
    LET indent == repeat(<<" ">>, indent_width(self))
    IN  IF self.kind \in {"SceneHeading", "Transition", "Character"}
        THEN indent \o to_uppercase(self.raw)
        ELSE indent \o self.raw

processed_column(self, raw_column) ==
    saturating_add(indent_width(self), raw_column)

----------------------------------------------------------------------------
(* The mouse handlers of ui/src/lib.rs and the processed view they and the *)
(* renderer read.  A handler works on the record of the fields of          *)
(* EditorState, as the keyboard handlers do; the functions of the          *)
(* processed view read parsed, cursor, top_line and the setting            *)
(* dialogue_double_space_newline.                                          *)

is_empty(ls) == Len(ls) = 1 /\ ls[1] = <<>>

\* scroll_by as it would be without the clamp to max_top_line
scroll_by_unclamped(state, line_delta, visible) ==
    [state EXCEPT !.top_line = Max(state.top_line + line_delta, 0)]

scroll_by(state, line_delta, visible) ==
    LET max_top == max_top_line(state, visible)
        sum == state.top_line + line_delta
        next == IF sum < 0 THEN 0 ELSE IF sum > max_top THEN max_top ELSE sum
    IN  [state EXCEPT !.top_line = next]

\* clamp_cursor_to_visible_range as it would be with the line set and the
\* column left as it is
clamp_cursor_to_visible_range_line_only(state, visible) ==
    LET document == state.document
        min_line == state.top_line
        max_line == Min(saturating_add(state.top_line,
                                       saturating_sub(visible, 1)),
                        saturating_sub(line_count(document), 1))
        line == state.cursor.position.line
        clamped_line == IF line < min_line THEN min_line
                        ELSE IF line > max_line THEN max_line
                        ELSE line
    IN  [state EXCEPT !.cursor.position.line = clamped_line]

\* Ord::clamp panics when min_line is above max_line
clamp_cursor_to_visible_range(state, visible) ==
    LET document == state.document
        min_line == state.top_line
        max_line == Min(saturating_add(state.top_line,
                                       saturating_sub(visible, 1)),
                        saturating_sub(line_count(document), 1))
        line == state.cursor.position.line
        clamped_line == IF line < min_line THEN min_line
                        ELSE IF line > max_line THEN max_line
                        ELSE line
    IN  IF is_empty(document)
        THEN set_cursor(state, PositionDefault, TRUE)
        ELSE IF min_line > max_line
        THEN [state EXCEPT !.panic = TRUE]
        ELSE IF clamped_line # line
        THEN LET column == Min(state.cursor.preferred_column,
                               line_len_chars(document, clamped_line))
             IN  set_cursor(state, Position(clamped_line, column), FALSE)
        ELSE state

\* delta_lines is the sum of the wheel events of the frame, in lines
handle_mouse_scroll(state, delta_lines, visible) ==
    IF delta_lines # 0
    THEN clamp_cursor_to_visible_range(
             scroll_by([state EXCEPT !.changed = TRUE,
                                     !.key = "MouseWheel",
                                     !.was = state.cursor],
                       delta_lines, visible),
             visible)
    ELSE state

ProcessedVisualLine(source_line, chars, raw_start_column, raw_end_column) ==
    [source_line |-> source_line, text |-> chars,
     raw_start_column |-> raw_start_column,
     raw_end_column |-> raw_end_column]

\* the while loop of dialogue_segments and the push of the tail after it;
\* start and index count from 0 as in the source
RECURSIVE dialogue_segments_loop(_, _, _, _)
dialogue_segments_loop(chars, segments, start, index) ==
    IF index + 1 < Len(chars)
    THEN IF chars[index + 1] = " " /\ chars[index + 2] = " "
         THEN dialogue_segments_loop(
                  chars,
                  Append(segments, <<start, SubSeq(chars, start + 1, index)>>),
                  index + 2, index + 2)
         ELSE dialogue_segments_loop(chars, segments, start, index + 1)
    ELSE Append(segments, <<start, SubSeq(chars, start + 1, Len(chars))>>)

dialogue_segments(chars) ==
    IF chars = <<>>
    THEN << <<0, <<>>>> >>
    ELSE dialogue_segments_loop(chars, <<>>, 0, 0)

\* the visual lines build_all_processed_visual_lines pushes for one line
visual_lines_of(state, source_line) ==
    LET parsed_line == state.parsed[source_line + 1]
    IN  IF /\ state.dialogue_double_space_newline
           /\ parsed_line.kind = "Dialogue"
        THEN LET indent == repeat(<<" ">>, indent_width(parsed_line))
                 segments == dialogue_segments(parsed_line.raw)
             IN  [i \in 1..Len(segments) |->
                     ProcessedVisualLine(
                         source_line,
                         indent \o segments[i][2],
                         segments[i][1],
                         saturating_add(segments[i][1], Len(segments[i][2])))]
        ELSE << ProcessedVisualLine(source_line, processed_text(parsed_line),
                                    0, Len(parsed_line.raw)) >>

RECURSIVE build_all_processed_visual_lines_from(_, _)
build_all_processed_visual_lines_from(state, source_line) ==
    IF source_line >= Len(state.parsed)
    THEN <<>>
    ELSE visual_lines_of(state, source_line)
             \o build_all_processed_visual_lines_from(state, source_line + 1)

build_all_processed_visual_lines(state) ==
    build_all_processed_visual_lines_from(state, 0)

first_visual_index_for_source_line(visual, source_line) ==
    LET found == {i \in 1..Len(visual) : visual[i].source_line >= source_line}
    IN  IF found = {}
        THEN None
        ELSE Some((CHOOSE i \in found : \A j \in found : i <= j) - 1)

\* processed_raw_column_from_display as it would be without the indent
\* taken off the display column
processed_raw_column_with_indent(state, visual_line, display_column) ==
    LET segment_len == saturating_sub(visual_line.raw_end_column,
                                      visual_line.raw_start_column)
        local_column == Min(display_column, segment_len)
    IN  saturating_add(visual_line.raw_start_column, local_column)

processed_raw_column_from_display(state, visual_line, display_column) ==
    LET indent == IF visual_line.source_line < Len(state.parsed)
                  THEN indent_width(state.parsed[visual_line.source_line + 1])
                  ELSE 0
        segment_len == saturating_sub(visual_line.raw_end_column,
                                      visual_line.raw_start_column)
        local_column == Min(saturating_sub(display_column, indent),
                            segment_len)
    IN  saturating_add(visual_line.raw_start_column, local_column)

\* the for loop of processed_cursor_visual_from_lines from entry_index on;
\* relevant holds the indexes, from 0, of the visual lines of the cursor's
\* line
RECURSIVE processed_cursor_visual_loop(_, _, _, _, _)
processed_cursor_visual_loop(visual, relevant, at, raw_column, indent) ==
    IF at >= Len(relevant)
    THEN LET default_index == relevant[Len(relevant)]
             default_line == visual[default_index + 1]
             default_len == saturating_sub(default_line.raw_end_column,
                                           default_line.raw_start_column)
         IN  Some(<<default_index, saturating_add(indent, default_len),
                    default_line.text>>)
    ELSE LET visual_index == relevant[at + 1]
             visual_line == visual[visual_index + 1]
             segment_len == saturating_sub(visual_line.raw_end_column,
                                           visual_line.raw_start_column)
             local_column ==
                 Min(saturating_sub(raw_column, visual_line.raw_start_column),
                     segment_len)
         IN  IF \/ raw_column <= visual_line.raw_end_column
                \/ /\ at + 1 < Len(relevant)
                   /\ raw_column
                        < visual[relevant[at + 2] + 1].raw_start_column
                \/ at + 1 = Len(relevant)
             THEN Some(<<visual_index, saturating_add(indent, local_column),
                        visual_line.text>>)
             ELSE processed_cursor_visual_loop(visual, relevant,
                                               at + 1, raw_column,
                                               indent)

\* the indexes, from 0 and in their order, of the visual lines of a line
RECURSIVE relevant_lines(_, _, _)
relevant_lines(visual, source_line, from) ==
    IF from >= Len(visual) THEN <<>>
    ELSE (IF visual[from + 1].source_line = source_line
          THEN <<from>> ELSE <<>>)
             \o relevant_lines(visual, source_line, from + 1)

processed_cursor_visual_from_lines(state, visual) ==
    LET source_line == state.cursor.position.line
        raw_column == state.cursor.position.column
        indent == IF source_line < Len(state.parsed)
                  THEN indent_width(state.parsed[source_line + 1])
                  ELSE 0
        relevant == relevant_lines(visual, source_line, 0)
    IN  IF relevant = <<>>
        THEN None
        ELSE processed_cursor_visual_loop(visual, relevant, 0, raw_column,
                                          indent)

PROCESSED_SPAN_CAPACITY == 256

build_processed_view(state, visible) ==
    LET max_visible == Max(Min(visible, PROCESSED_SPAN_CAPACITY), 1)
        all_lines == build_all_processed_visual_lines(state)
        first == first_visual_index_for_source_line(all_lines, state.top_line)
        default_start == IF first.some THEN first.value ELSE 0
        line == state.cursor.position.line
        cursor_in_plain_view ==
            line >= state.top_line /\ line < state.top_line + visible
        cursor_line_offset == saturating_sub(line, state.top_line)
        at == processed_cursor_visual_from_lines(state, all_lines)
        start_index ==
            Min(IF cursor_in_plain_view /\ at.some
                THEN saturating_sub(at.value[1], cursor_line_offset)
                ELSE default_start,
                saturating_sub(Len(all_lines), max_visible))
        end_index == Min(saturating_add(start_index, max_visible),
                         Len(all_lines))
    IN  IF all_lines = <<>>
        THEN <<>>
        ELSE SubSeq(all_lines, start_index + 1, end_index)

\* the lines the plain panel shows, as many as visible_plain_lines returns
visible_plain_lines_len(state, visible) ==
    LET last == Min(saturating_add(state.top_line, visible),
                    line_count(state.document))
    IN  Min(saturating_sub(last, state.top_line),
            saturating_sub(line_count(state.document), state.top_line))

\* the fields the functions of the processed view read
ViewOf(state, setting) ==
    [parsed |-> state.parsed, cursor |-> state.cursor,
     top_line |-> state.top_line, dialogue_double_space_newline |-> setting]

\* the left button was just pressed over the panel click.panel; the
\* layout gives click.line_offset for the height of the pointer, cut to the
\* lines of the panel, and click.display_column for where it is in the line
handle_mouse_click(state, click, setting, visible) ==
    LET document == state.document
        processed_view == build_processed_view(ViewOf(state, setting), visible)
        panel_line_count ==
            IF click.panel = "Plain"
            THEN Max(visible_plain_lines_len(state, visible), 1)
            ELSE Max(Len(processed_view), 1)
        line_offset == Min(click.line_offset,
                           saturating_sub(panel_line_count, 1))
        clicked == [state EXCEPT !.changed = TRUE, !.key = "MouseLeft",
                                 !.was = state.cursor]
        visual_index == Min(line_offset,
                            saturating_sub(Len(processed_view), 1))
    IN  IF is_empty(document)
        THEN set_cursor(clicked, PositionDefault, TRUE)
        ELSE IF click.panel = "Plain"
        THEN LET line == Min(saturating_add(state.top_line, line_offset),
                             saturating_sub(line_count(document), 1))
                 column == Min(click.display_column,
                               line_len_chars(document, line))
             IN  ensure_cursor_visible(
                     set_cursor(clicked, Position(line, column), TRUE),
                     visible)
        ELSE IF visual_index >= Len(processed_view)
        THEN state
        ELSE LET visual_line == processed_view[visual_index + 1]
                 raw_column ==
                     processed_raw_column_from_display(
                         ViewOf(state, setting), visual_line,
                         click.display_column)
                 line == visual_line.source_line
                 column == Min(raw_column, line_len_chars(document, line))
             IN  ensure_cursor_visible(
                     set_cursor(clicked, Position(line, column), TRUE),
                     visible)

----------------------------------------------------------------------------
(* The editor under its file dialogs: open_load_dialog and                 *)
(* open_save_dialog, which the toolbar buttons and the Ctrl/Cmd+O and +S   *)
(* shortcuts call, and resolve_dialog_results, which takes the path the    *)
(* user picked to load_from_path or save_to_path.  What is in the files is *)
(* not the editor's to decide: a load gives any of the documents, or       *)
(* fails, and a save succeeds or fails.                                    *)

MaxPolls == 2  \* frames that poll a dialog whose task has not finished

\* the paths the user picks in a file dialog
PickedPaths == {"a.fountain", "b.fountain"}

MaxFileLines == 2  \* lines of a document that is loaded or typed into
MaxFileChars == 1  \* chars of such a document

InFileBounds(ls) == Len(ls) <= MaxFileLines /\ total_chars(ls) <= MaxFileChars

\* what Document::load returns here: Err, or Ok of the document of the
\* text read
LoadResultsOfFile ==
    {loaded \in LoadResults : loaded.ok => InFileBounds(loaded.document)}

\* the fields of EditorState that load_from_path and save_to_path use
EditorFiles ==
    [document |-> lines, parsed |-> parsed, cursor |-> cursor,
     top_line |-> top_line, paths |-> paths,
     status_message |-> status_message]

\* load_from_path as it would be without the call of reparse
load_from_path_without_reparse(state, path, loaded) ==
    IF loaded.ok
    THEN [state EXCEPT !.document = loaded.document,
                       !.cursor = CursorDefault,
                       !.top_line = 0,
                       !.paths = DocumentPath(path, path),
                       !.status_message = <<"Loaded ", path>>]
    ELSE [state EXCEPT !.status_message =
              <<"Load failed for ", path, ": ", IoError>>]

\* load_from_path as it would be with the paths set before the load is
\* known to have succeeded
load_from_path_paths_first(state, path, loaded) ==
    IF loaded.ok
    THEN [reparse([state EXCEPT !.document = loaded.document])
              EXCEPT !.cursor = CursorDefault,
                     !.top_line = 0,
                     !.paths = DocumentPath(path, path),
                     !.status_message = <<"Loaded ", path>>]
    ELSE [state EXCEPT !.paths = DocumentPath(path, path),
                       !.status_message =
                           <<"Load failed for ", path, ": ", IoError>>]

\* loaded is what Document::load(&path) returned
load_from_path(state, path, loaded) ==
    IF loaded.ok
    THEN [reparse([state EXCEPT !.document = loaded.document])
              EXCEPT !.cursor = CursorDefault,
                     !.top_line = 0,
                     !.paths = DocumentPath(path, path),
                     !.status_message = <<"Loaded ", path>>]
    ELSE [state EXCEPT !.status_message =
              <<"Load failed for ", path, ": ", IoError>>]

\* save_to_path as it would be with load_path following the save
save_to_path_sets_load_path(state, path, saved) ==
    IF saved
    THEN [state EXCEPT !.paths = DocumentPath(path, path),
                       !.status_message = <<"Saved ", path>>]
    ELSE [state EXCEPT !.status_message =
              <<"Save failed for ", path, ": ", IoError>>]

\* saved is whether self.document.save(&path) returned Ok
save_to_path(state, path, saved) ==
    IF saved
    THEN [state EXCEPT !.paths.save_path = path,
                       !.status_message = <<"Saved ", path>>]
    ELSE [state EXCEPT !.status_message =
              <<"Save failed for ", path, ": ", IoError>>]

\* the fields are written back after a step of the dialogs named step
Written(after, step) ==
    /\ lines' = after.document
    /\ parsed' = after.parsed
    /\ cursor' = after.cursor
    /\ top_line' = after.top_line
    /\ paths' = after.paths
    /\ status_message' = after.status_message
    /\ op' = step
    /\ UNCHANGED <<arg, pref, input, before, ret, panicked, text, out,
                   visible_lines, classifier, reader,
                   dialogue_double_space_newline, direct_calls,
                   changed_document>>

\* the fields of DialogState as a handler finds them
Dialogs == DialogState(pending, opened_at, last_watchdog_log_at, poll_count)

\* the fields of DialogState are written back
WrittenDialogs(after) ==
    /\ pending' = after.pending
    /\ opened_at' = after.opened_at
    /\ last_watchdog_log_at' = after.last_watchdog_log_at
    /\ poll_count' = after.poll_count

begin_pending(dialogs, kind) ==
    [dialogs EXCEPT !.pending = kind, !.opened_at = Some(Now),
                    !.last_watchdog_log_at = Some(Now), !.poll_count = 0]

\* clear_pending as it would be with the dialog left pending
clear_pending_left_pending(dialogs) ==
    [dialogs EXCEPT !.opened_at = None, !.last_watchdog_log_at = None,
                    !.poll_count = 0]

\* clear_pending as it would be with only pending cleared
clear_pending_only(dialogs) == [dialogs EXCEPT !.pending = "None"]

clear_pending(dialogs) ==
    [dialogs EXCEPT !.pending = "None", !.opened_at = None,
                    !.last_watchdog_log_at = None, !.poll_count = 0]

\* u64::MAX, at the width TLC's integers allow
U64_MAX == 2147483647

\* the first part of resolve_dialog_results, up to the look at what the
\* poll of the task returned: should_log_watchdog is whether two seconds
\* have gone by since the last line of the watchdog
polled(dialogs, should_log_watchdog) ==
    [dialogs EXCEPT
        !.poll_count = IF @ = U64_MAX THEN @ ELSE @ + 1,
        !.last_watchdog_log_at =
            IF should_log_watchdog \/ ~@.some THEN Some(Now) ELSE @]

\* open_load_dialog as it would be with a request replacing the dialog
\* that is pending
open_dialog_replacing(dialogs, kind) == begin_pending(dialogs, kind)

\* what open_load_dialog and open_save_dialog do to DialogState
open_dialog(dialogs, kind) ==
    IF dialogs.pending # "None" THEN dialogs ELSE begin_pending(dialogs, kind)

OpenLoadDialog ==
    /\ Idle
    /\ WrittenDialogs(open_dialog(Dialogs, "Load"))
    /\ IF pending # "None"
       THEN Written([EditorFiles EXCEPT !.status_message =
                         <<"A file dialog is already open.">>],
                    "open_load_dialog")
       ELSE Written([EditorFiles EXCEPT !.status_message =
                         <<"Opening file picker...">>],
                    "open_load_dialog")

OpenSaveDialog ==
    /\ Idle
    /\ WrittenDialogs(open_dialog(Dialogs, "Save"))
    /\ IF pending # "None"
       THEN Written([EditorFiles EXCEPT !.status_message =
                         <<"A file dialog is already open.">>],
                    "open_save_dialog")
       ELSE Written([EditorFiles EXCEPT !.status_message =
                         <<"Opening save dialog...">>],
                    "open_save_dialog")

\* resolve_dialog_results in a frame where the task of the dialog has not
\* finished
PollDialog ==
    /\ Idle
    /\ pending # "None"
    /\ poll_count < MaxPolls
    /\ \E should_log_watchdog \in BOOLEAN :
          WrittenDialogs(polled(Dialogs, should_log_watchdog))
    /\ Written(EditorFiles, "resolve_dialog_results")

\* resolve_dialog_results in a frame where the task of the load dialog
\* has finished: the user has picked a path or has canceled
ResolveLoadDialog ==
    /\ Idle
    /\ pending = "Load"
    /\ \E should_log_watchdog \in BOOLEAN :
          WrittenDialogs(clear_pending(polled(Dialogs, should_log_watchdog)))
    /\ \/ \E path \in PickedPaths, loaded \in LoadResultsOfFile :
             Written(load_from_path(EditorFiles, path, loaded),
                     "load_from_path")
       \/ Written([EditorFiles EXCEPT !.status_message =
                       <<"Load canceled.">>],
                  "load_canceled")

\* resolve_dialog_results in a frame where the task of the save dialog
\* has finished
ResolveSaveDialog ==
    /\ Idle
    /\ pending = "Save"
    /\ \E should_log_watchdog \in BOOLEAN :
          WrittenDialogs(clear_pending(polled(Dialogs, should_log_watchdog)))
    /\ \/ \E path \in PickedPaths, saved \in BOOLEAN :
             Written(save_to_path(EditorFiles, path, saved),
                     "save_to_path")
       \/ Written([EditorFiles EXCEPT !.status_message =
                       <<"Save canceled.">>],
                  "save_canceled")

ResolveDialogResults == ResolveLoadDialog \/ ResolveSaveDialog

\* handle_text_input between the steps of the dialogs
HandleTextInputOfFile ==
    /\ Idle
    /\ \E event \in KeyEvents :
          LET after == handle_text_input(Self, FALSE, <<event>>,
                                         visible_lines)
          IN  InFileBounds(after.document) /\ Handled(after)

NextFiles ==
    \/ HandleTextInputOfFile
    \/ OpenLoadDialog
    \/ OpenSaveDialog
    \/ ResolveDialogResults
    \/ EndFrame

InitFiles == from_world(LoadResultsOfFile, SettingsOff)

SpecFiles == InitFiles /\ [][NextFiles]_vars

----------------------------------------------------------------------------
(* The file dialogs frame by frame: resolve_dialog_results polls the task  *)
(* of the pending dialog in every frame, and the task may take any number  *)
(* of frames to finish.                                                    *)

NextDialog ==
    \/ OpenLoadDialog
    \/ OpenSaveDialog
    \/ PollDialog
    \/ ResolveLoadDialog
    \/ ResolveSaveDialog
    \/ EndFrame

SpecDialog == InitFiles /\ [][NextDialog]_vars

\* the update frames keep running, so the frame a handler ran in is
\* followed by the next one, and the task of a pending dialog finishes in
\* the end, so resolve_dialog_results, which runs in every frame, finds it
\* finished in one of them
SpecDialogFair ==
    /\ SpecDialog
    /\ WF_vars(EndFrame)
    /\ SF_vars(ResolveLoadDialog \/ ResolveSaveDialog)

----------------------------------------------------------------------------
(* The editor under every event that moves its cursor or its view: the     *)
(* keys of handle_text_input and handle_navigation_input, the wheel and    *)
(* the left button of the mouse, and the loads of the load dialog.         *)

MaxWheel == 2  \* lines the wheel scrolls in one frame, either way

\* the sum of the wheel messages of a frame, in lines
WheelLines == (0 - MaxWheel)..MaxWheel

\* where a click may fall: the panel, the line of the panel and the
\* column the layout gives, before and after the indent of each kind
ClickColumns ==
    {0, 1} \cup {indent_width([kind |-> k]) + 1 : k \in LineKind}

Clicks ==
    [panel : {"Plain", "Processed"}, line_offset : 0..(MaxVisible - 1),
     display_column : ClickColumns]

HandleMouseScroll ==
    /\ Idle
    /\ \E delta_lines \in WheelLines :
          Handled(handle_mouse_scroll(Self, delta_lines, visible_lines))

HandleMouseClick ==
    /\ Idle
    /\ \E click \in Clicks :
          Handled(handle_mouse_click(Self, click,
                                     dialogue_double_space_newline,
                                     visible_lines))

NextCursor ==
    \/ HandleTextInputOfFile
    \/ HandleNavigationInput
    \/ HandleMouseScroll
    \/ HandleMouseClick
    \/ OpenLoadDialog
    \/ ResolveLoadDialog
    \/ EndFrame

SpecCursor == InitFiles /\ [][NextCursor]_vars

----------------------------------------------------------------------------
(* handle_text_input step by step: the key events of the frame are there   *)
(* to read, the for loop reads them one at a time, and after the last the  *)
(* handler reparses and scrolls if one of them edited the document.        *)

MaxFrame == 2  \* key events of one frame

\* the key events that edit, and a key released
EditEvents ==
    {KeyboardInput(k, TRUE, <<>>) : k \in {"Enter", "Backspace", "Delete"}}
        \cup {KeyboardInput("Character", TRUE, <<"a">>)}
        \cup {KeyboardInput("Enter", FALSE, <<>>)}

Frames == SeqsUpTo(EditEvents, MaxFrame) \ {<<>>}

\* no handler is running
BetweenHandlers == ~panicked /\ op \in {"from_world", "returned"}

\* handle_text_input is called with no Control or Super key held: the
\* events of the frame are there to read
ReadKeyboardInputs ==
    /\ BetweenHandlers
    /\ keyboard_inputs' \in Frames
    /\ read' = 0
    /\ edited' = FALSE
    /\ op' = "handle_text_input"
    /\ UNCHANGED <<lines, arg, pref, input, before, ret, panicked, text, out,
                   editor, classifier, files, direct_calls, changed_document>>

InTextInput == ~panicked /\ op \notin {"from_world", "returned"}

\* one turn of the for loop
TextInputEvent ==
    /\ InTextInput
    /\ read < Len(keyboard_inputs)
    /\ \E after \in {handle_text_input_event(Self, keyboard_inputs[read + 1])} :
          /\ InFileBounds(after.document)
          /\ lines' = after.document
          /\ parsed' = after.parsed
          /\ cursor' = after.cursor
          /\ top_line' = after.top_line
          /\ panicked' = after.panic
          /\ edited' = (edited \/ after.changed)
          /\ op' = (IF after.changed THEN after.key ELSE "continue")
    /\ read' = read + 1
    /\ UNCHANGED <<arg, pref, input, before, ret, text, out, visible_lines,
                   keyboard_inputs, classifier, files,
                   dialogue_double_space_newline, direct_calls,
                   changed_document>>

\* after the for loop
TextInputReturns ==
    /\ InTextInput
    /\ read = Len(keyboard_inputs)
    /\ \E after \in {IF edited
                      THEN ensure_cursor_visible(reparse(Self), visible_lines)
                      ELSE Self} :
          /\ lines' = after.document
          /\ parsed' = after.parsed
          /\ cursor' = after.cursor
          /\ top_line' = after.top_line
    /\ op' = "returned"
    /\ UNCHANGED <<arg, pref, input, before, ret, panicked, text, out,
                   visible_lines, keyboard_inputs, read, edited, classifier,
                   files,
                   dialogue_double_space_newline, direct_calls,
                   changed_document>>

NextFrame ==
    \/ ReadKeyboardInputs
    \/ TextInputEvent
    \/ TextInputReturns

SpecFrame == InitFiles /\ [][NextFrame]_vars

----------------------------------------------------------------------------
(* The classifier and the formatting of one line: a line and the kind of   *)
(* the line before it are given to classify_line, the ParsedLine made of   *)
(* the result is asked for its processed_text and then for the             *)
(* processed_column of one of its columns.                                 *)

MaxClassifyLen == 2  \* chars of the short lines given to classify_line

ClassifyChars == {"a", "A", " ", "(", ")", ":", "1", TAB, SharpS}

ClassifyLines ==
    SeqsUpTo(ClassifyChars, MaxClassifyLen) \cup
    { repeat(<<"A">>, CharacterMaxChars),
      repeat(<<"A">>, CharacterMaxChars + 1),
      <<"A", " ">> \o repeat(<<"1">>, CharacterMaxChars - 2),
      <<" ">> \o repeat(<<"A">>, CharacterMaxChars) \o <<" ">>,
      \* the lines of the tests of parser.rs
      << "I", "N", "T", ".", " ", "C", "O", "F", "F", "E", "E", " ", "S",
         "H", "O", "P", " ", "-", " ", "D", "A", "Y" >>,
      <<"S", "A", "R", "A", "H">>,
      <<"(", "s", "m", "i", "l", "i", "n", "g", ")">>,
      << "I", "t", " ", "i", "s", " ", "j", "u", "s", "t", " ", "t", "e",
         "x", "t", "." >>,
      <<"C", "U", "T", " ", "T", "O", ":">>,
      << "I", "n", "t", ".", " ", "k", "i", "t", "c", "h", "e", "n", " ",
         "-", " ", "d", "a", "y" >>,
      <<"A", "c", "t", "i", "o", "n">>,
      \* scene markers in a mix of cases, after whitespace, and near misses
      <<"e", "x", "t", ".">>,
      <<"E", "s", "T", ".", " ", "a">>,
      <<" ", TAB, "i", "n", "t", "/", "E", "X", "T", ".", " ", "a">>,
      <<"i", "/", "E", ".", " ", "a">>,
      <<"I", "N", "T">>,
      <<"a", " ", "i", "n", "t", ".">>,
      \* transition shapes
      <<"f", "a", "d", "e", " ", "o", "u", "t", ".">>,
      <<"F", "a", "d", "e", " ", "T", "o", " ", "B", "l", "a", "c", "k", ".">>,
      <<"a", " ", "t", "o", ":">>,
      <<"I", "N", "T", ".", " ", "T", "O", ":">>,
      <<"F", "A", "D", "E", " ", "O", "U", "T", ".">>,
      <<"a", "t", "o", ":">>,
      \* character cues and near misses
      <<"A", " ", "B", " ", "C", " ", "D">>,
      <<"A", " ", "B", " ", "C", " ", "D", " ", "E">>,
      <<"A", " ", " ", "B">>,
      <<"A", TAB, "B">>,
      <<"A", ":">>,
      << "O", "'", "N", "E", "I", "L", "-", "2", " ", "(", "V", ".", "O",
         ".", ")" >>,
      <<"S", "a", "r", "a", "h">>,
      <<EAcuteUpper>>,
      <<"(", "A", ")">>,
      <<" ", "A", " ">>,
      \* chars whose uppercase is more than one char
      <<"i", "n", "t", ".", " ", "s", "t", "r", "a", SharpS, "e">>,
      <<" ", "e", "s", "t", ".", " ", SharpS, " ", "a">>,
      <<SharpS, " ", "t", "o", ":">>,
      <<"s", "t", "r", "a", SharpS, "e">> }

InitClassify ==
    /\ raw_line \in ClassifyLines
    /\ kind_before \in LineKind
    /\ line_kind = "Empty"
    /\ processed = <<>>
    /\ text_column = 0
    /\ op = "line"
    /\ lines = Document_default
    /\ text = <<>>
    /\ out = <<>>
    /\ arg = PositionDefault
    /\ pref = 0
    /\ input = <<>>
    /\ before = <<>>
    /\ ret = PositionDefault
    /\ panicked = FALSE
    /\ NoEditor
    /\ NoFiles
    /\ NoReader
    /\ NoDirectCalls
    /\ NoChange

\* the ParsedLine parse_document pushes for the line
Line == ParsedLine(line_kind, raw_line)

ClassifyLine ==
    /\ op = "line"
    /\ op' = "classify_line"
    /\ line_kind' = classify_line(raw_line, kind_before)
    /\ UNCHANGED <<lines, arg, pref, input, before, ret, panicked, text, out,
                   editor, raw_line, kind_before, processed, text_column,
                   files, reader, direct_calls, changed_document>>

ProcessedText ==
    /\ op = "classify_line"
    /\ op' = "processed_text"
    /\ processed' = processed_text(Line)
    /\ UNCHANGED <<lines, arg, pref, input, before, ret, panicked, text, out,
                   editor, raw_line, kind_before, line_kind,
                   text_column, files, reader, direct_calls, changed_document>>

\* pref is the raw_column given
ProcessedColumn ==
    /\ op = "processed_text"
    /\ op' = "processed_column"
    /\ \E raw_column \in 0..Len(raw_line) :
          /\ pref' = raw_column
          /\ text_column' = processed_column(Line, raw_column)
    /\ UNCHANGED <<lines, arg, input, before, ret, panicked, text, out,
                   editor, raw_line, kind_before, line_kind, processed, files,
                   reader, direct_calls, changed_document>>

NextClassify ==
    \/ ClassifyLine
    \/ ProcessedText
    \/ ProcessedColumn

SpecClassify == InitClassify /\ [][NextClassify]_vars

----------------------------------------------------------------------------
(* The index conversions of a line: a column of a line is given to         *)
(* char_to_byte_index and the byte index it returns to byte_to_char_index  *)
(* of ui/src/lib.rs.                                                       *)

MaxIndexLen == 3  \* chars of the line

\* chars of one, two and three bytes
IndexChars == {"a", EAcute, PrivateUse}

IndexLines == SeqsUpTo(IndexChars, MaxIndexLen)

\* the columns asked for: those of the line and two beyond its end
IndexColumns == 0..(MaxIndexLen + 2)

\* char_indices().take_while(|(byte, _)| *byte < byte_index).count(), from
\* the char of index i on
RECURSIVE take_while_count(_, _, _)
take_while_count(s, i, byte_index) ==
    IF i < Len(s) /\ char_start(s, i) < byte_index
    THEN 1 + take_while_count(s, i + 1, byte_index)
    ELSE 0

byte_to_char_index(s, byte_index) ==
    IF byte_index = 0 THEN 0 ELSE take_while_count(s, 0, byte_index)

InitIndex ==
    /\ text \in IndexLines
    /\ op = "line"
    /\ lines = Document_default
    /\ out = <<>>
    /\ arg = PositionDefault
    /\ pref = 0
    /\ input = <<>>
    /\ before = <<>>
    /\ ret = PositionDefault
    /\ panicked = FALSE
    /\ NoEditor
    /\ NoFiles
    /\ NoClassifier
    /\ NoReader
    /\ NoDirectCalls
    /\ NoChange

CharToByteIndex ==
    /\ op = "line"
    /\ op' = "char_to_byte_index"
    /\ \E column \in IndexColumns :
          /\ index_column' = column
          /\ index_byte' = char_to_byte_index(text, column)
    /\ UNCHANGED <<lines, arg, pref, input, before, ret, panicked, text, out,
                   editor, classifier, files, reader, index_char, erased,
                   caret_visual, caret_raw, changed_document>>

ByteToCharIndex ==
    /\ op = "char_to_byte_index"
    /\ op' = "byte_to_char_index"
    /\ index_char' = byte_to_char_index(text, index_byte)
    /\ UNCHANGED <<lines, arg, pref, input, before, ret, panicked, text, out,
                   editor, classifier, files, reader, index_column,
                   index_byte, erased, caret_visual, caret_raw,
                   changed_document>>

NextIndex ==
    \/ CharToByteIndex
    \/ ByteToCharIndex

SpecIndex == InitIndex /\ [][NextIndex]_vars

----------------------------------------------------------------------------
(* Erasing a document: from the end of the last line backspace is called   *)
(* again and again, each time at the position the call before returned.    *)

MaxEraseLen == 3  \* chars of the text the document is made from
MaxFurther == 2   \* calls of backspace after the document is empty

EraseTexts == SeqsUpTo(InsertChars, MaxEraseLen)

\* what is there to erase: a call of backspace that erases takes one off
EraseMeasure(ls) == total_chars(ls) + line_count(ls) - 1

\* the end of the last line
EndOfLastLine(ls) ==
    Position(line_count(ls) - 1, line_len_chars(ls, line_count(ls) - 1))

InitErase ==
    /\ text \in EraseTexts
    /\ lines = from_text(text)
    /\ before = lines
    /\ ret = EndOfLastLine(lines)
    /\ op = "from_text"
    /\ out = <<>>
    /\ arg = PositionDefault
    /\ pref = 0
    /\ input = <<>>
    /\ panicked = FALSE
    /\ NoEditor
    /\ NoFiles
    /\ NoClassifier
    /\ NoReader
    /\ NoDirectCalls
    /\ NoChange

\* backspace at the position the call before returned; before keeps the
\* document erasing started from
BackspaceAgain ==
    /\ ~panicked
    /\ erased < EraseMeasure(before) + MaxFurther
    /\ \E r \in {backspace(lines, ret)} :
          /\ lines' = r.lines
          /\ ret' = r.ret
          /\ panicked' = r.panic
    /\ arg' = ret
    /\ erased' = erased + 1
    /\ op' = "backspace"
    /\ UNCHANGED <<pref, input, before, text, out, editor, classifier,
                   files, reader, index_column, index_byte, index_char,
                   caret_visual, caret_raw, changed_document>>

NextErase == BackspaceAgain

SpecErase == InitErase /\ [][NextErase]_vars

----------------------------------------------------------------------------
(* The caret of the processed panel: for a parsed document and a cursor   *)
(* in it, processed_cursor_visual_from_lines gives the visual line and the *)
(* display column of the caret, and processed_raw_column_from_display      *)
(* gives the raw column of that display column, as it does for a click.    *)

MaxVisualLen == 4  \* chars of the line the cursor is in

\* lines of a letter and spaces, which are Action on their own and
\* Dialogue under a character cue
VisualLines == SeqsUpTo({"a", " "}, MaxVisualLen)

\* the line on its own, under a character cue, and under a scene heading
VisualDocuments ==
    {<<line>> : line \in VisualLines}
        \cup {<<<<"A">>, line>> : line \in VisualLines}
        \cup {<<<<"I", "N", "T", ".">>, line>> : line \in VisualLines}

\* the fields of EditorState the functions of the processed view read
ProcessedViewState == ViewOf(Self, dialogue_double_space_newline)

InitVisual ==
    /\ lines \in VisualDocuments
    /\ parsed = parse_document(lines)
    /\ \E line \in 0..(Len(lines) - 1) :
          \E column \in 0..line_len_chars(lines, line) :
              cursor = set_position(CursorDefault, Position(line, column))
    /\ dialogue_double_space_newline \in BOOLEAN
    /\ top_line = 0
    /\ visible_lines = 1
    /\ op = "parse_document"
    /\ arg = PositionDefault
    /\ pref = 0
    /\ input = <<>>
    /\ before = <<>>
    /\ ret = PositionDefault
    /\ panicked = FALSE
    /\ text = <<>>
    /\ out = <<>>
    /\ NoFiles
    /\ NoClassifier
    /\ NoReader
    /\ NoDirectCalls
    /\ NoChange

ProcessedCursorVisual ==
    /\ op = "parse_document"
    /\ op' = "processed_cursor_visual_from_lines"
    /\ caret_visual' =
          processed_cursor_visual_from_lines(
              ProcessedViewState,
              build_all_processed_visual_lines(ProcessedViewState))
    /\ UNCHANGED <<lines, arg, pref, input, before, ret, panicked, text, out,
                   editor, classifier, files, reader, index_column,
                   index_byte, index_char, erased, caret_raw,
                   changed_document>>

\* the visual line and the display column of the caret are given back
ProcessedRawColumn ==
    /\ op = "processed_cursor_visual_from_lines"
    /\ caret_visual.some
    /\ op' = "processed_raw_column_from_display"
    /\ caret_raw' =
          processed_raw_column_from_display(
              ProcessedViewState,
              build_all_processed_visual_lines(ProcessedViewState)
                  [caret_visual.value[1] + 1],
              caret_visual.value[2])
    /\ UNCHANGED <<lines, arg, pref, input, before, ret, panicked, text, out,
                   editor, classifier, files, reader, index_column,
                   index_byte, index_char, erased, caret_visual,
                   changed_document>>

NextVisual ==
    \/ ProcessedCursorVisual
    \/ ProcessedRawColumn

SpecVisual == InitVisual /\ [][NextVisual]_vars

----------------------------------------------------------------------------
(* Vocabulary of the properties *)

ValidPosition(ls, position) ==
    /\ position.line < line_count(ls)
    /\ position.column <= line_len_chars(ls, position.line)

Navigations == {"move_left", "move_right", "move_up", "move_down"}

Mutations ==
    {"insert_char", "insert_text", "insert_newline", "backspace", "delete"}

Count(ch, s) == Cardinality({i \in 1..Len(s) : s[i] = ch})

RECURSIVE CountInLines(_, _)
CountInLines(ch, ls) ==
    IF ls = <<>> THEN 0 ELSE Count(ch, Head(ls)) + CountInLines(ch, Tail(ls))

\* index in t of its j-th occurrence of ch
Occurrence(ch, t, j) ==
    CHOOSE k \in 1..Len(t) :
        /\ t[k] = ch
        /\ Cardinality({m \in 1..k : t[m] = ch}) = j

\* first and last index in t of its i-th segment between line feeds
SegmentFirst(t, i) == IF i = 1 THEN 1 ELSE Occurrence(LF, t, i - 1) + 1
SegmentLast(t, i) ==
    IF i = Count(LF, t) + 1 THEN Len(t) ELSE Occurrence(LF, t, i) - 1

\* the text with every "\r\n" replaced by "\n"
RECURSIVE ReplaceCrLf(_)
ReplaceCrLf(t) ==
    IF t = <<>> THEN <<>>
    ELSE IF Len(t) >= 2 /\ t[1] = CR /\ t[2] = LF
    THEN <<LF>> \o ReplaceCrLf(SubSeq(t, 3, Len(t)))
    ELSE <<Head(t)>> \o ReplaceCrLf(Tail(t))

HasCrLf(t) == \E k \in 1..(Len(t) - 1) : t[k] = CR /\ t[k + 1] = LF

----------------------------------------------------------------------------
(* Properties of the buffer, checked under Spec *)

\* C1: a Document always has at least one line, however it was constructed
\* (new, from_text, Default) and whatever edits were applied to it.
C1_AtLeastOneLine == line_count(lines) >= 1

\* C2: clamp_position returns, for every document and every position, a
\* position with line < line_count and column <= line_len_chars(line), and
\* clamping that result again changes nothing.
C2_ClampValidIdempotent ==
    op = "clamp_position" =>
        /\ ValidPosition(lines, ret)
        /\ clamp_position(lines, ret) = ret

\* C3: move_left, move_right, move_up and move_down return a valid address
\* of the document for every input position, in range or not.  Stated for
\* the documents that have a line, where a valid address exists.
C3_NavigationReturnsValid ==
    (op \in Navigations /\ line_count(lines) >= 1) =>
        ~panicked /\ ValidPosition(lines, ret)

\* C4: on a document with at least one line, every mutation returns, for
\* every input position, a position that is valid in the document as the
\* mutation left it.
C4_MutationReturnsValid ==
    (op \in Mutations /\ line_count(before) >= 1) =>
        ~panicked /\ ValidPosition(lines, ret)

C4_Witness ==
    /\ op = "backspace"
    /\ line_count(before) >= 2
    /\ ~ValidPosition(before, arg)
    /\ line_count(lines) < line_count(before)
    /\ ValidPosition(lines, ret)

\* C5: every buffer operation other than load and save returns normally on
\* every constructible document and every position: no call panics.
C5_NoPanic == ~panicked

\* C6: no stored line ever contains a line feed.
C6_NoLineFeedInLines ==
    \A i \in 1..Len(lines) : Count(LF, lines[i]) = 0

\* C10: insert_newline at a valid position p followed by backspace at the
\* position it returned restores the original lines and returns p.
C10_NewlineBackspaceInverse ==
    (op = "insert_newline" /\ ValidPosition(before, arg)) =>
        /\ ~panicked
        /\ LET undo == backspace(lines, ret)
           IN  /\ ~undo.panic
               /\ undo.lines = before
               /\ undo.ret = arg

C10_Witness ==
    /\ op = "insert_newline"
    /\ ValidPosition(before, arg)
    /\ arg.column > 0
    /\ arg.column < line_len_chars(before, arg.line)
    /\ before[arg.line + 1][1] = EAcute
    /\ backspace(lines, ret).lines = before

\* q is what clamping p to the document gives, said without clamp_position:
\* the nearest line not past the last one, the nearest column not past the
\* end of that line
IsClampOf(ls, q, p) ==
    /\ ValidPosition(ls, q)
    /\ q.line = p.line \/ (p.line > q.line /\ q.line = line_count(ls) - 1)
    /\ q.column = p.column
       \/ (p.column > q.column /\ q.column = Len(ls[q.line + 1]))

\* the line with its char of index c (0-based) taken out
WithoutChar(line, c) == SubSeq(line, 1, c) \o SubSeq(line, c + 2, Len(line))

\* ls with the lines of index l and l+1 (0-based) replaced by their
\* concatenation
Merged(ls, l) ==
    [i \in 1..(Len(ls) - 1) |->
        IF i < l + 1 THEN ls[i]
        ELSE IF i = l + 1 THEN ls[l + 1] \o ls[l + 2]
        ELSE ls[i + 1]]

\* C11: delete at the end of a non-final line l merges line l+1 into it,
\* takes exactly one line off the document, leaves the other lines as they
\* were and returns the clamped input; backspace at column 0 of a non-first
\* line l merges it into line l-1 and returns (l-1, old length of line l-1).
C11_LineMerging ==
    /\ op = "delete" =>
        \A l \in 0..(Len(before) - 2) :
            IsClampOf(before, Position(l, Len(before[l + 1])), arg) =>
                /\ ~panicked
                /\ line_count(lines) = line_count(before) - 1
                /\ lines = Merged(before, l)
                /\ ret = Position(l, Len(before[l + 1]))
    /\ op = "backspace" =>
        \A l \in 1..(Len(before) - 1) :
            IsClampOf(before, Position(l, 0), arg) =>
                /\ ~panicked
                /\ line_count(lines) = line_count(before) - 1
                /\ lines = Merged(before, l - 1)
                /\ ret = Position(l - 1, Len(before[l]))

C11_Witness ==
    /\ op = "delete"
    /\ line_count(before) = 3
    /\ IsClampOf(before, Position(0, 1), arg)
    /\ arg # Position(0, 1)
    /\ Len(before[1]) = 1
    /\ Len(before[2]) = 1
    /\ lines = <<before[1] \o before[2], before[3]>>

\* C12: backspace at (0,0) and delete at the end of the last line change no
\* line and return the clamped input position.
C12_BoundaryNoOps ==
    /\ (op = "backspace" /\ IsClampOf(before, Position(0, 0), arg)) =>
        ~panicked /\ lines = before /\ ret = Position(0, 0)
    /\ op = "delete" =>
        \A c \in 0..MaxChars :
            LET end_of_document == Position(Len(before) - 1, c)
            IN  (/\ before # <<>>
                 /\ c = Len(before[Len(before)])
                 /\ IsClampOf(before, end_of_document, arg)) =>
                    ~panicked /\ lines = before /\ ret = end_of_document

C12_Witness ==
    /\ op = "delete"
    /\ line_count(before) = 2
    /\ Len(before[2]) = 1
    /\ IsClampOf(before, Position(1, 1), arg)
    /\ arg.line > 1
    /\ lines = before
    /\ ret = Position(1, 1)

\* C13: backspace at a clamped position (l, c) with c > 0 takes out exactly
\* the char of index c-1 of line l and returns (l, c-1); delete at (l, c)
\* with c before the end of the line takes out exactly the char of index c
\* and returns (l, c); the other lines and line_count stay as they were.
C13_SingleCharRemoval ==
    \A l \in 0..(Len(before) - 1) : \A c \in 0..Len(before[l + 1]) :
        IsClampOf(before, Position(l, c), arg) =>
            /\ (op = "backspace" /\ c > 0) =>
                /\ ~panicked
                /\ lines = [before EXCEPT ![l + 1] = WithoutChar(@, c - 1)]
                /\ Len(lines[l + 1]) = Len(before[l + 1]) - 1
                /\ ret = Position(l, c - 1)
            /\ (op = "delete" /\ c < Len(before[l + 1])) =>
                /\ ~panicked
                /\ lines = [before EXCEPT ![l + 1] = WithoutChar(@, c)]
                /\ Len(lines[l + 1]) = Len(before[l + 1]) - 1
                /\ ret = Position(l, c)

C13_Witness ==
    /\ op = "backspace"
    /\ line_count(before) = 2
    /\ before[2] = <<EAcute, "a">>
    /\ arg = Position(1, 2)
    /\ lines = <<before[1], <<EAcute>> >>
    /\ ret = Position(1, 1)

\* one call of insert_newline or insert_char per char, each at the position
\* the call before returned
RECURSIVE CharByChar(_, _, _)
CharByChar(ls, position, chars) ==
    LET first == IF Head(chars) = LF
                 THEN insert_newline(ls, position)
                 ELSE insert_char(ls, position, Head(chars))
    IN  IF first.panic \/ Len(chars) = 1
        THEN first
        ELSE CharByChar(first.lines, first.ret, Tail(chars))

EndOfDocument(ls) == Position(Len(ls) - 1, Len(ls[Len(ls)]))

\* C14: insert_text(pos, s) leaves the document and returns the position
\* that one insert_newline per '\n' and one insert_char per other char of s
\* give, each called at the position the call before returned; line_count
\* grows by the number of '\n' in s; and when pos clamps to the end of the
\* document, to_text() is the old text followed by s.
C14_InsertTextCharByChar ==
    op = "insert_text" =>
        /\ input # <<>> =>
            LET each == CharByChar(before, arg, input)
            IN  /\ panicked = each.panic
                /\ ~panicked => (lines = each.lines /\ ret = each.ret)
        /\ ~panicked =>
            /\ line_count(lines) = line_count(before) + Count(LF, input)
            /\ (before # <<>> /\ IsClampOf(before, EndOfDocument(before), arg))
                => to_text(lines) = to_text(before) \o input

C14_Witness ==
    /\ op = "insert_text"
    /\ ~panicked
    /\ input = <<LF, EAcute>>
    /\ line_count(before) = 2
    /\ before[2] # <<>>
    /\ arg.line > 1
    /\ IsClampOf(before, EndOfDocument(before), arg)
    /\ line_count(lines) = 3
    /\ ret = Position(2, 1)

\* C15: on a valid position, move_left steps one column back, or from
\* column 0 to the end of the previous line, or stays at (0,0); move_right
\* steps one column on, or from the end of a line to column 0 of the next
\* line, or stays at the end of the last line; neither changes the document.
C15_HorizontalNavigation ==
    ValidPosition(before, arg) =>
        /\ op = "move_left" =>
            /\ ~panicked
            /\ lines = before
            /\ arg.column > 0 => ret = Position(arg.line, arg.column - 1)
            /\ (arg.column = 0 /\ arg.line > 0) =>
                ret = Position(arg.line - 1, Len(before[arg.line]))
            /\ arg = Position(0, 0) => ret = arg
        /\ op = "move_right" =>
            /\ ~panicked
            /\ lines = before
            /\ arg.column < Len(before[arg.line + 1]) =>
                ret = Position(arg.line, arg.column + 1)
            /\ (/\ arg.column = Len(before[arg.line + 1])
                /\ arg.line + 1 < Len(before)) =>
                ret = Position(arg.line + 1, 0)
            /\ arg = EndOfDocument(before) => ret = arg

C15_Witness ==
    /\ op = "move_left"
    /\ ValidPosition(before, arg)
    /\ arg = Position(2, 0)
    /\ Len(before[2]) = 2
    /\ ret = Position(1, 2)

\* C16: on a valid position, move_up off the first line and move_down off
\* the last line go exactly one line up or down and to the column
\* min(preferred_column, length of the line they go to), whatever the
\* column they come from; move_up on the first line and move_down on the
\* last line return the input position.
C16_VerticalNavigation ==
    ValidPosition(before, arg) =>
        /\ op = "move_up" =>
            /\ ~panicked
            /\ lines = before
            /\ arg.line > 0 =>
                ret = Position(arg.line - 1, Min(pref, Len(before[arg.line])))
            /\ arg.line = 0 => ret = arg
        /\ op = "move_down" =>
            /\ ~panicked
            /\ lines = before
            /\ arg.line + 1 < Len(before) =>
                ret = Position(arg.line + 1,
                               Min(pref, Len(before[arg.line + 2])))
            /\ arg.line + 1 = Len(before) => ret = arg

C16_Witness ==
    /\ op = "move_down"
    /\ ValidPosition(before, arg)
    /\ arg = Position(0, 0)
    /\ pref = 2
    /\ Len(before) > 1
    /\ Len(before[2]) = 1
    /\ ret = Position(1, 1)

----------------------------------------------------------------------------
(* Properties of the editor's cursor, checked under SpecEditor *)

VerticalKeys == {"ArrowUp", "ArrowDown", "PageUp", "PageDown"}

HorizontalKeys ==
    {"ArrowLeft", "ArrowRight", "Home", "End",
     "Character", "Enter", "Backspace", "Delete"}

\* C17: ArrowUp, ArrowDown, PageUp and PageDown leave
\* cursor.preferred_column as it was before the key, and the column they
\* leave the cursor at is min(preferred_column, length of the line reached).
C17_VerticalKeepsPreferred ==
    op \in VerticalKeys =>
        /\ cursor.preferred_column = pref
        /\ cursor.position.column =
               Min(pref, line_len_chars(lines, cursor.position.line))

\* C18: after ArrowLeft, ArrowRight, Home, End, an inserted character,
\* Enter, Backspace and Delete, cursor.preferred_column is the column the
\* cursor is at.
C18_HorizontalSetsPreferred ==
    op \in HorizontalKeys =>
        cursor.preferred_column = cursor.position.column

----------------------------------------------------------------------------
(* Properties of the classifier, checked under SpecParse *)

\* C19: parse_document returns one ParsedLine per line of the document, in
\* the order of the lines, each with the line as it is (not trimmed) for
\* raw; and the document is after the call what it was before it.
C19_OneParsedLinePerLine ==
    op = "parse_document" =>
        /\ Len(parsed) = line_count(lines)
        /\ \A i \in 1..Len(parsed) :
              /\ parsed[i].raw = lines[i]
              /\ parsed[i].kind \in LineKind
        /\ lines = before
        /\ lines = from_text(text)

C19_Witness ==
    /\ op = "parse_document"
    /\ text = <<"A", LF, " ", "a", " ", LF>>
    /\ Len(parsed) = 3
    /\ parsed[1] = ParsedLine("Character", <<"A">>)
    /\ parsed[2] = ParsedLine("Dialogue", <<" ", "a", " ">>)
    /\ parsed[3] = ParsedLine("Empty", <<>>)

\* the kinds of a dialogue block: a line after one of them is looked at as
\* part of the block
DialogueBlock == {"Character", "Dialogue", "Parenthetical"}

\* the kind the line before line i of the parsed document was given, Empty
\* for the first line
KindBefore(i) == IF i = 1 THEN "Empty" ELSE parsed[i - 1].kind

\* C21: each line of a parsed document has the kind of the first of the
\* seven rules its trimmed text matches, with the kind of the line before it
\* (Empty for the first line): empty; scene marker; transition shape;
\* character-cue shape; parenthetical shape inside a dialogue block; inside a
\* dialogue block; otherwise Action.  "INT. TO:" is a SceneHeading and
\* "FADE OUT." a Transition.
C21_FirstMatchingRule ==
    op = "parse_document" =>
        \A i \in DOMAIN parsed :
            LET t == trim(before[i])
                k == parsed[i].kind
                scene == is_scene_heading(t)
                transition == is_transition(t)
                cue == is_character(t)
                block == KindBefore(i) \in DialogueBlock
            IN  /\ t = <<>> => k = "Empty"
                /\ t # <<>> /\ scene => k = "SceneHeading"
                /\ t # <<>> /\ ~scene /\ transition => k = "Transition"
                /\ t # <<>> /\ ~scene /\ ~transition /\ cue
                      => k = "Character"
                /\ t # <<>> /\ ~scene /\ ~transition /\ ~cue
                      /\ is_parenthetical(t) /\ block
                      => k = "Parenthetical"
                /\ t # <<>> /\ ~scene /\ ~transition /\ ~cue
                      /\ ~is_parenthetical(t) /\ block
                      => k = "Dialogue"
                /\ t # <<>> /\ ~scene /\ ~transition /\ ~cue /\ ~block
                      => k = "Action"
                /\ before[i] = <<"I", "N", "T", ".", " ", "T", "O", ":">>
                      => k = "SceneHeading"
                /\ before[i] = <<"F", "A", "D", "E", " ", "O", "U", "T", ".">>
                      => k = "Transition"

C21_Witness ==
    /\ op = "parse_document"
    /\ before = << <<"I", "N", "T", ".", " ", "T", "O", ":">>,
                   <<"F", "A", "D", "E", " ", "O", "U", "T", ".">>,
                   <<"(", "a", ")">> >>
    /\ parsed[1].kind = "SceneHeading"
    /\ parsed[2].kind = "Transition"
    /\ parsed[3].kind = "Action"

\* C22 as amended: a line that starts with "(" and ends with ")", is not of
\* the character-cue shape and comes right after a line classified Action
\* is classified Action.
C22_ParentheticalAfterAction ==
    op = "parse_document" =>
        \A i \in DOMAIN parsed :
            /\ i > 1
            /\ parsed[i - 1].kind = "Action"
            /\ is_parenthetical(before[i])
            /\ ~is_character(before[i])
            => parsed[i].kind = "Action"

C22_Witness ==
    /\ op = "parse_document"
    /\ before = << <<" ", "a", " ">>, <<"(", "a", ")">> >>
    /\ parsed[1].kind = "Action"
    /\ parsed[2].kind = "Action"

\* C22 as stated: every line that starts with "(" and ends with ")" and
\* comes right after a line classified Action is classified Action.
C22_Original ==
    op = "parse_document" =>
        \A i \in DOMAIN parsed :
            /\ i > 1
            /\ parsed[i - 1].kind = "Action"
            /\ is_parenthetical(before[i])
            => parsed[i].kind = "Action"

\* C33: in a parsed document a Dialogue or Parenthetical line is never
\* the first line and always comes right after a Character, Dialogue or
\* Parenthetical line, and an Action line never comes right after a
\* Character, Dialogue or Parenthetical line.
C33_DialogueBlocks ==
    op = "parse_document" =>
        \A i \in DOMAIN parsed :
            /\ parsed[i].kind \in {"Dialogue", "Parenthetical"} =>
                  /\ i > 1
                  /\ parsed[i - 1].kind \in DialogueBlock
            /\ parsed[i].kind = "Action" =>
                  \/ i = 1
                  \/ parsed[i - 1].kind \notin DialogueBlock

\* a cue, a parenthetical under it and a line of dialogue under that
C33_Witness ==
    /\ op = "parse_document"
    /\ before = << <<"A">>, <<"(", "a", ")">>, <<" ", "a", " ">> >>
    /\ parsed[1].kind = "Character"
    /\ parsed[2].kind = "Parenthetical"
    /\ parsed[3].kind = "Dialogue"

----------------------------------------------------------------------------
(* Properties of the classifier on two documents, checked under           *)
(* SpecChange                                                              *)

\* the kinds a line has by its shape
ShapeKinds == {"Empty", "SceneHeading", "Transition", "Character"}

\* the parsed lines of the two documents, one after the other
BothParsed == parsed \o changed_parsed

\* C34: whether a line is Empty, SceneHeading, Transition or Character
\* depends on its own text only: where two documents, or two places of one,
\* hold the same line text, the line has one of these four kinds in both,
\* and then the same, or in neither; and changing line i changes the kind
\* of a line j > i only if every line between them is Dialogue,
\* Parenthetical or Action, in the document and in the changed one.
C34_ShapeKindsByTextAlone ==
    op = "parse_changed_document" =>
        /\ \A p, q \in DOMAIN BothParsed :
              (/\ BothParsed[p].raw = BothParsed[q].raw
               /\ BothParsed[p].kind \in ShapeKinds)
              => BothParsed[q].kind = BothParsed[p].kind
        /\ \A j \in DOMAIN parsed :
              parsed[j].kind # changed_parsed[j].kind =>
                  /\ j >= arg.line + 1
                  /\ \A k \in (arg.line + 2)..(j - 1) :
                        /\ parsed[k].kind \notin ShapeKinds
                        /\ changed_parsed[k].kind \notin ShapeKinds

\* a cue is changed to an action: the parenthetical under it becomes an
\* action and so does the dialogue under that, while the cue of the
\* changed document is a cue as the one of the document was
C34_Witness ==
    /\ op = "parse_changed_document"
    /\ arg.line = 0
    /\ lines = << <<"A">>, <<"(", "a", ")">>, <<"a">> >>
    /\ changed_lines = << <<"a">>, <<"(", "a", ")">>, <<"a">> >>
    /\ parsed[2].kind = "Parenthetical"
    /\ changed_parsed[2].kind = "Action"
    /\ parsed[3].kind = "Dialogue"
    /\ changed_parsed[3].kind = "Action"

----------------------------------------------------------------------------
(* Properties of the classifier and of ParsedLine, checked under           *)
(* SpecClassify                                                            *)

\* s starts with the letters of marker, in upper or lower case
StartsWithIgnoringCase(s, marker) ==
    /\ Len(marker) <= Len(s)
    /\ \A i \in 1..Len(marker) :
          \/ s[i] = marker[i]
          \/ \E j \in 1..Len(LowerLetters) :
                s[i] = LowerLetters[j] /\ marker[i] = UpperLetters[j]

Classified == op \in {"classify_line", "processed_text", "processed_column"}

Formatted == op \in {"processed_text", "processed_column"}

\* C23: a line that is not empty and whose text, leading whitespace taken
\* away, starts with INT., EXT., EST., INT/EXT. or I/E. in any mix of cases
\* is a SceneHeading whatever the kind of the line before; a line of no
\* shape that does not follow a Character, Dialogue or Parenthetical line,
\* so also one that follows a SceneHeading, is an Action.
C23_SceneHeadingAnyCase ==
    Classified =>
        /\ (\E marker \in SceneHeadingMarkers :
                StartsWithIgnoringCase(trim_start(raw_line), marker))
              => line_kind = "SceneHeading"
        /\ /\ trim(raw_line) # <<>>
           /\ ~is_scene_heading(trim(raw_line))
           /\ ~is_transition(trim(raw_line))
           /\ ~is_character(trim(raw_line))
           /\ kind_before \notin DialogueBlock
           => line_kind = "Action"
        /\ raw_line = <<"A", "c", "t", "i", "o", "n">>
              /\ kind_before = "SceneHeading"
              => line_kind = "Action"

C23_Witness ==
    /\ op = "classify_line"
    /\ raw_line = << "I", "n", "t", ".", " ", "k", "i", "t", "c", "h", "e", "n",
                  " ", "-", " ", "d", "a", "y" >>
    /\ kind_before = "Dialogue"
    /\ line_kind = "SceneHeading"

\* the chars a character cue may hold
CueChars ==
    {UpperLetters[i] : i \in 1..Len(UpperLetters)} \cup Digits
        \cup {" ", ".", "(", ")", "'", "-"}

\* C24: a trimmed line that is neither a scene heading nor a transition is
\* a Character exactly when it has at most 32 chars, 1 to 4 words and only
\* uppercase ASCII letters, ASCII digits, space, period, parentheses,
\* apostrophe and hyphen: a cue of 32 chars or of 4 words is a Character,
\* one of 33 chars or 5 words is not, nor is one with a lowercase letter, a
\* tab or a colon.
C24_CharacterCueBounds ==
    Classified =>
        LET t == trim(raw_line)
            words == split_whitespace_count(t)
        IN  /\ ~is_scene_heading(t) /\ ~is_transition(t)
                  => (line_kind = "Character" <=>
                          /\ Len(t) <= 32
                          /\ words >= 1
                          /\ words <= 4
                          /\ \A i \in 1..Len(t) : t[i] \in CueChars)
            /\ t = [i \in 1..32 |-> "A"] => line_kind = "Character"
            /\ t = [i \in 1..33 |-> "A"] => line_kind # "Character"
            /\ t = <<"A", " ", "B", " ", "C", " ", "D">>
                  => line_kind = "Character"
            /\ t = <<"A", " ", "B", " ", "C", " ", "D", " ", "E">>
                  => line_kind # "Character"
            /\ t \in {<<"S", "a", "r", "a", "h">>, <<"A", TAB, "B">>,
                       <<"A", ":">>}
                  => line_kind # "Character"

C24_Witness ==
    /\ op = "classify_line"
    /\ raw_line = <<" ">> \o [i \in 1..32 |-> "A"] \o <<" ">>
    /\ line_kind = "Character"

\* the indentation of each kind
IndentOf ==
    [k \in LineKind |->
        CASE k = "SceneHeading" -> 2
          [] k = "Action" -> 0
          [] k = "Character" -> 24
          [] k = "Dialogue" -> 12
          [] k = "Parenthetical" -> 18
          [] k = "Transition" -> 40
          [] k = "Empty" -> 0]

Spaces(n) == [i \in 1..n |-> " "]

\* C25: indent_width is 2 for a SceneHeading, 0 for an Action, 24 for a
\* Character, 12 for a Dialogue, 18 for a Parenthetical, 40 for a Transition
\* and 0 for an Empty line, and processed_text is that many spaces and then
\* raw, in uppercase for SceneHeading, Transition and Character and as it
\* is for the other kinds.
C25_FormattingDerivation ==
    Formatted =>
        /\ indent_width(Line) = IndentOf[line_kind]
        /\ SubSeq(processed, 1, IndentOf[line_kind])
              = Spaces(IndentOf[line_kind])
        /\ line_kind \in {"SceneHeading", "Transition", "Character"}
              => SubSeq(processed, IndentOf[line_kind] + 1, Len(processed))
                    = to_uppercase(raw_line)
        /\ line_kind \notin {"SceneHeading", "Transition", "Character"}
              => SubSeq(processed, IndentOf[line_kind] + 1, Len(processed))
                    = raw_line
        /\ raw_line = << "I", "n", "t", ".", " ", "k", "i", "t", "c", "h", "e",
                      "n", " ", "-", " ", "d", "a", "y" >>
              => processed = Spaces(2) \o
                    << "I", "N", "T", ".", " ", "K", "I", "T", "C", "H",
                        "E", "N", " ", "-", " ", "D", "A", "Y" >>
        /\ raw_line = <<"S", "a", "r", "a", "h">> /\ kind_before = "Character"
              => processed = Spaces(12) \o <<"S", "a", "r", "a", "h">>
        /\ raw_line = <<"a", " ", "t", "o", ":">>
              => processed = Spaces(40) \o <<"A", " ", "T", "O", ":">>

C25_Witness ==
    /\ op = "processed_text"
    /\ raw_line = <<"(", "s", "m", "i", "l", "i", "n", "g", ")">>
    /\ line_kind = "Parenthetical"
    /\ Len(processed) = 27

\* C26: processed_text has as many chars as indent_width and raw together,
\* and processed_column(c) is indent_width + c and is the column, in
\* processed_text, of the char at column c of raw, for every column c of
\* raw from 0 to its length.
C26_RecasingKeepsColumns ==
    /\ Formatted => Len(processed) = indent_width(Line) + Len(raw_line)
    /\ op = "processed_column" =>
          /\ text_column = indent_width(Line) + pref
          /\ pref < Len(raw_line) =>
                /\ text_column < Len(processed)
                /\ \/ processed[text_column + 1] = raw_line[pref + 1]
                   \/ <<processed[text_column + 1]>>
                         = to_uppercase(<<raw_line[pref + 1]>>)

----------------------------------------------------------------------------
(* Properties of the editor's files, checked under SpecFiles *)

\* the step is a load_from_path(path) whose Document::load returned Ok
LoadSucceeds(path) ==
    op' = "load_from_path" /\ status_message' = <<"Loaded ", path>>

\* the step is a load_from_path(path) whose Document::load returned Err
LoadFails(path) ==
    /\ op' = "load_from_path"
    /\ status_message' = <<"Load failed for ", path, ": ", IoError>>

\* the step is a save_to_path(path) whose Document::save returned Ok
SaveSucceeds(path) ==
    op' = "save_to_path" /\ status_message' = <<"Saved ", path>>

\* the step is a save_to_path(path) whose Document::save returned Err
SaveFails(path) ==
    /\ op' = "save_to_path"
    /\ status_message' = <<"Save failed for ", path, ": ", IoError>>

\* C27: a load of a path that succeeds sets load_path and save_path to the
\* path; a save to a path that succeeds sets save_path to it and leaves
\* load_path as it is; and nothing else changes them, so that after any
\* loads and saves load_path is the path of the last load that succeeded,
\* or the default, and save_path that of the last load or save that
\* succeeded.
C27_LoadAndSaveTargets ==
    [][/\ \A path \in PickedPaths :
             /\ LoadSucceeds(path) => paths' = DocumentPath(path, path)
             /\ SaveSucceeds(path) =>
                   /\ paths'.save_path = path
                   /\ paths'.load_path = paths.load_path
       /\ paths'.load_path # paths.load_path
             => LoadSucceeds(paths'.load_path)
       /\ paths'.save_path # paths.save_path
             => \/ LoadSucceeds(paths'.save_path)
                \/ SaveSucceeds(paths'.save_path)]_vars

C27_Witness ==
    /\ op = "save_to_path"
    /\ status_message = <<"Saved ", "b.fountain">>
    /\ paths = DocumentPath("a.fountain", "b.fountain")

\* C28: a load that fails leaves the document, the parsed view, the cursor,
\* top_line, load_path and save_path as they are and starts no other load:
\* the status message says that it failed; a save that fails leaves the
\* document and save_path as they are, and the status message says so.
C28_FailuresChangeNothing ==
    [][\A path \in PickedPaths :
          /\ LoadFails(path) =>
                /\ lines' = lines
                /\ parsed' = parsed
                /\ cursor' = cursor
                /\ top_line' = top_line
                /\ paths' = paths
                /\ pending' = "None"
                /\ status_message' # status_message
          /\ SaveFails(path) =>
                /\ lines' = lines
                /\ paths'.save_path = paths.save_path
                /\ pending' = "None"
                /\ status_message' # status_message]_vars

C28_Witness ==
    /\ op = "load_from_path"
    /\ status_message = <<"Load failed for ", "b.fountain", ": ", IoError>>
    /\ paths = DocumentPath("a.fountain", "a.fountain")
    /\ lines = <<<<>>, <<"a">>>>
    /\ cursor.position = Position(1, 1)
    /\ top_line = 1

\* C30: after startup, after handle_text_input and after a load in
\* resolve_dialog_results, so in every state that rendering and the mouse
\* handlers see, parsed is parse_document of the document and has as many
\* entries as the document has lines.
C30_ParsedViewOfDocument ==
    /\ parsed = parse_document(lines)
    /\ Len(parsed) = line_count(lines)

C30_Witness ==
    /\ op = "load_from_path"
    /\ status_message = <<"Loaded ", "a.fountain">>
    /\ lines = <<<<"a">>, <<>>>>
    /\ Len(parsed) = 2

----------------------------------------------------------------------------
(* Properties of the file dialogs, checked under SpecDialog *)

\* the step is a request for a dialog: open_load_dialog or open_save_dialog
\* has run
DialogRequested == op' \in {"open_load_dialog", "open_save_dialog"}

\* the dialog the request is for
RequestedKind == IF op' = "open_load_dialog" THEN "Load" ELSE "Save"

\* C35: at most one file dialog is pending at any time: a load or save
\* request made while a dialog is pending is ignored, it leaves the pending
\* dialog, its opened_at and poll_count, the document and the paths as they
\* are and only sets the status message; a request made with no dialog
\* pending makes exactly that dialog pending, with poll_count 0.
C35_OneDialogPending ==
    [][DialogRequested =>
          IF pending # "None"
          THEN /\ pending' = pending
               /\ opened_at' = opened_at
               /\ poll_count' = poll_count
               /\ lines' = lines
               /\ parsed' = parsed
               /\ cursor' = cursor
               /\ paths' = paths
               /\ status_message' = <<"A file dialog is already open.">>
          ELSE /\ pending' = RequestedKind
               /\ opened_at'.some
               /\ poll_count' = 0]_vars

\* a save was asked for while the load dialog, polled twice, was pending
C35_Witness ==
    /\ op = "open_save_dialog"
    /\ pending = "Load"
    /\ poll_count = 2
    /\ status_message = <<"A file dialog is already open.">>

\* whenever no dialog is pending opened_at and last_watchdog_log_at are
\* unset and poll_count is 0
NothingPendingIsClear ==
    pending = "None" =>
        /\ ~opened_at.some
        /\ ~last_watchdog_log_at.some
        /\ poll_count = 0

\* resolve_dialog_results has polled a task that has not finished
PolledUnfinished == op' = "resolve_dialog_results"

\* resolve_dialog_results has found the dialog canceled
Canceled == op' \in {"load_canceled", "save_canceled"}

\* C36: whenever no dialog is pending, opened_at and last_watchdog_log_at
\* are unset and poll_count is 0; a poll of a pending dialog that has not
\* finished changes nothing but poll_count and the time of the watchdog;
\* a dialog that finishes canceled clears the pending state and changes
\* only the status message: the document, the parsed view, the cursor and
\* the paths stay as they are.
C36_ResolutionKeepsState ==
    /\ []NothingPendingIsClear
    /\ [][(PolledUnfinished =>
               (/\ poll_count' = poll_count + 1
                /\ UNCHANGED <<lines, parsed, cursor, top_line, paths,
                               status_message, pending, opened_at>>))
           /\ (Canceled =>
                  (/\ pending' = "None"
                   /\ NothingPendingIsClear'
                   /\ status_message' # status_message
                   /\ UNCHANGED <<lines, parsed, cursor, top_line,
                                  paths>>))]_vars

\* a save dialog that was polled twice has been canceled
C36_Witness ==
    /\ op = "save_canceled"
    /\ pending = "None"
    /\ status_message = <<"Save canceled.">>
    /\ poll_count = 0

\* resolve_dialog_results has found the task finished and has applied
\* what it returned
Resolved ==
    op' \in {"load_from_path", "load_canceled", "save_to_path",
             "save_canceled"}

\* C37: if the task of a pending dialog finishes in the end and the update
\* frames keep running, the dialog is resolved in the end; it is resolved
\* once, for the resolution clears the pending state, so that its load or
\* save is applied once; and after it a new load or save request is
\* accepted again.
C37_PendingDialogResolves ==
    /\ (pending # "None") ~> (pending = "None")
    /\ [][(Resolved => (pending # "None" /\ pending' = "None"))
           /\ ((DialogRequested /\ pending = "None")
                  => pending' = RequestedKind)]_vars

\* a save dialog has been resolved with a path and the load dialog asked
\* for after it is pending
C37_Witness ==
    /\ op = "open_load_dialog"
    /\ pending = "Load"
    /\ status_message = <<"Opening file picker...">>
    /\ paths.save_path = "b.fountain"

----------------------------------------------------------------------------
(* Properties of handle_text_input, checked under SpecFrame *)

\* the key event is one that edits the document
IsEdit(event) ==
    /\ event.pressed
    /\ \/ event.logical_key \in {"Enter", "Backspace", "Delete"}
       \/ /\ event.text # <<>>
          /\ \A i \in 1..Len(event.text) : is_printable_char(event.text[i])

\* the for loop is about to apply an edit
EditIsNext ==
    /\ InTextInput
    /\ read < Len(keyboard_inputs)
    /\ IsEdit(keyboard_inputs[read + 1])

----------------------------------------------------------------------------
(* Properties of the cursor and the view, checked under SpecCursor *)

\* C31: after any sequence of editor events (text input, Enter, Backspace,
\* Delete, the navigation keys, mouse scroll, mouse click, load) the
\* cursor is on a line of the document and at a column of that line:
\* cursor.line < line_count and cursor.column <= line_len_chars(cursor.line).
C31_CursorInDocument ==
    /\ cursor.position.line < line_count(lines)
    /\ cursor.position.column
         <= line_len_chars(lines, cursor.position.line)

\* the wheel has scrolled the cursor out of view and it was moved to a
\* shorter line
C31_Witness ==
    /\ op = "MouseWheel"
    /\ cursor.position.line # arg.line
    /\ cursor.position.column < arg.column

\* the handler that ran last has called ensure_cursor_visible: a key of
\* handle_text_input that edited, a key of handle_navigation_input, or a
\* click on a document that is not empty
EnsuredCursorVisible ==
    \/ op \in {"Enter", "Backspace", "Delete", "Character"}
    \/ op \in {NavigationKeys[i] : i \in 1..Len(NavigationKeys)}
    \/ op = "MouseLeft" /\ ~is_empty(lines)

\* C38: for visible_lines >= 1, right after ensure_cursor_visible the
\* cursor line is in the window, top_line <= cursor.line < top_line +
\* visible_lines, and top_line <= line_count - min(visible_lines,
\* line_count); after any sequence of edits, navigation, scrolling and
\* loads, line-merging edits included, top_line < line_count.
C38_ViewInDocument ==
    /\ top_line < line_count(lines)
    /\ (visible_lines >= 1 /\ EnsuredCursorVisible) =>
          /\ top_line <= cursor.position.line
          /\ cursor.position.line < top_line + visible_lines
          /\ top_line
               <= line_count(lines) - Min(visible_lines, line_count(lines))

\* a Backspace at the start of the second line, which was the one line
\* in view, has merged it into the first and the view has followed
C38_Witness ==
    /\ op = "Backspace"
    /\ visible_lines = 1
    /\ arg = Position(1, 0)
    /\ line_count(lines) = 1
    /\ cursor.position.line = 0
    /\ top_line = 0

----------------------------------------------------------------------------
(* Properties of the index conversions, checked under SpecIndex *)

\* the byte length of the first n chars of s
BytesOfPrefix(s, n) ==
    LET Sum[i \in 0..n] == IF i = 0 THEN 0 ELSE Sum[i - 1] + len_utf8(s[i])
    IN  Sum[n]

\* C32: char_to_byte_index returns the byte offset at which the n-th
\* scalar of the line starts, or the byte length of the line when n is at
\* least its char count, which is always a char boundary; and
\* byte_to_char_index of that offset is min(n, char count).
C32_IndexRoundTrip ==
    /\ op \in {"char_to_byte_index", "byte_to_char_index"} =>
          /\ index_byte = BytesOfPrefix(text, Min(index_column, Len(text)))
          /\ is_char_boundary(text, index_byte)
    /\ op = "byte_to_char_index" =>
          index_char = Min(index_column, Len(text))

\* the column after a char of three bytes and one of two
C32_Witness ==
    /\ op = "byte_to_char_index"
    /\ text = <<PrivateUse, EAcute, "a">>
    /\ index_column = 2
    /\ index_byte = 5
    /\ index_char = 2

----------------------------------------------------------------------------
(* Properties of erasing, checked under SpecErase *)

\* C39: from any document of at least one line, with the cursor at the end
\* of the last line, backspace called again and again at the position it
\* returned takes exactly one off total chars + line_count - 1 each time,
\* so that after exactly that many calls the document is a single empty
\* line (is_empty) with the position at (0,0), which it was not before;
\* further calls change nothing.
C39_ErasingTerminates ==
    /\ ~panicked
    /\ erased <= EraseMeasure(before) =>
          EraseMeasure(lines) = EraseMeasure(before) - erased
    /\ erased < EraseMeasure(before) => ~is_empty(lines)
    /\ erased >= EraseMeasure(before) =>
          /\ is_empty(lines)
          /\ ret = PositionDefault

\* three lines, the middle one of one char, have been erased in three
\* calls and backspace has been called once more
C39_Witness ==
    /\ before = << <<>>, <<"a">>, <<>> >>
    /\ erased = 4
    /\ is_empty(lines)
    /\ ret = PositionDefault

----------------------------------------------------------------------------
(* Properties of the caret of the processed panel, checked under          *)
(* SpecVisual                                                              *)

\* the visual lines of the document
AllVisualLines == build_all_processed_visual_lines(ProcessedViewState)

\* the visual line the caret was put in
CaretLine == AllVisualLines[caret_visual.value[1] + 1]

\* every visual line has raw_start_column <= raw_end_column <= the char
\* length of its source line; the visual lines are in the order of their
\* source lines, and each source line has at least one
VisualLinesWellFormed ==
    /\ \A i \in DOMAIN AllVisualLines :
          /\ AllVisualLines[i].source_line < Len(parsed)
          /\ AllVisualLines[i].raw_start_column
               <= AllVisualLines[i].raw_end_column
          /\ AllVisualLines[i].raw_end_column
               <= Len(parsed[AllVisualLines[i].source_line + 1].raw)
    /\ \A i, j \in DOMAIN AllVisualLines :
          i <= j => AllVisualLines[i].source_line
                      <= AllVisualLines[j].source_line
    /\ \A source_line \in 0..(Len(parsed) - 1) :
          \E i \in DOMAIN AllVisualLines :
              AllVisualLines[i].source_line = source_line

\* the cursor is in the two spaces that end a visual line of a dialogue
\* line, behind the first of them: no visual line holds its column
InDoubleSpace ==
    \A i \in DOMAIN AllVisualLines :
        AllVisualLines[i].source_line = cursor.position.line =>
            \/ cursor.position.column < AllVisualLines[i].raw_start_column
            \/ cursor.position.column > AllVisualLines[i].raw_end_column

\* C40 as amended: with the setting on or off, the visual line and the
\* display column of the caret map back to the source line of the cursor,
\* and to its raw column unless the cursor is between the two spaces that
\* split a dialogue line, where they map back to the end of the visual
\* line before the split, one column to the left; every visual line has
\* raw_start_column <= raw_end_column <= the char length of its source
\* line, the visual lines are in the order of their source lines, and
\* each source line has at least one.
C40_CaretMapsBack ==
    /\ VisualLinesWellFormed
    /\ op # "parse_document" => caret_visual.some
    /\ op = "processed_raw_column_from_display" =>
          /\ CaretLine.source_line = cursor.position.line
          /\ ~InDoubleSpace => caret_raw = cursor.position.column
          /\ InDoubleSpace =>
                /\ caret_raw = CaretLine.raw_end_column
                /\ caret_raw = cursor.position.column - 1

\* the cursor between the two spaces of a dialogue line that is split in
\* two: the caret is at the end of the first visual line of the two
C40_Witness ==
    /\ op = "processed_raw_column_from_display"
    /\ dialogue_double_space_newline
    /\ lines = << <<"A">>, <<"a", " ", " ", "a">> >>
    /\ cursor.position = Position(1, 2)
    /\ InDoubleSpace
    /\ caret_visual.value[1] = 1
    /\ caret_visual.value[2] = 13
    /\ caret_raw = 1

\* C40 as stated: for every parsed line and every valid cursor column on
\* it, with the setting on or off, the visual line and the display column
\* of the caret map back to the same source line and the same raw column.
C40_Original ==
    op = "processed_raw_column_from_display" =>
        /\ CaretLine.source_line = cursor.position.line
        /\ caret_raw = cursor.position.column

----------------------------------------------------------------------------
(* Properties of the text conversion, checked under SpecText *)

\* C7: for every text without a carriage return, from_text followed by
\* to_text gives back exactly the text.
C7_RoundTrip ==
    (op = "to_text" /\ Count(CR, text) = 0) => out = text

C7_Witness ==
    /\ op = "to_text"
    /\ Count(CR, text) = 0
    /\ Len(text) >= 3
    /\ text[Len(text)] = LF
    /\ text[Len(text) - 1] = LF
    /\ out = text

\* C8: from_text yields the same lines for a text and for the text with
\* every "\r\n" replaced by "\n"; it has one line per segment between line
\* feeds, and each line is its segment without the carriage returns at the
\* segment's end, every other carriage return being kept.
C8_LoadNormalizes ==
    op = "from_text" =>
        /\ lines = from_text(ReplaceCrLf(text))
        /\ line_count(lines) = Count(LF, text) + 1
        /\ \A i \in 1..Len(lines) :
            LET first == SegmentFirst(text, i)
                last == SegmentLast(text, i)
                kept == Len(lines[i])
            IN  /\ kept <= last - first + 1
                /\ lines[i] = SubSeq(text, first, first + kept - 1)
                /\ \A k \in (first + kept)..last : text[k] = CR
                /\ kept > 0 => lines[i][kept] # CR

C8_Witness ==
    /\ op = "from_text"
    /\ HasCrLf(text)
    /\ \E i \in 1..Len(lines) :
        /\ Count(CR, lines[i]) > 0
        /\ SegmentLast(text, i) - SegmentFirst(text, i) + 1 > Len(lines[i])

\* C9: to_text joins the lines with a bare line feed and adds nothing else:
\* n lines give n-1 line feeds, the output ends with the last line, it has
\* no carriage return that the lines do not have, and a document loaded from
\* CRLF text is written without any "\r\n".
C9_SaveJoinsWithLf ==
    op = "to_text" =>
        /\ Count(LF, out) = line_count(lines) - 1
        /\ Len(out) = total_chars(lines) + line_count(lines) - 1
        /\ LET last == lines[Len(lines)]
           IN  SubSeq(out, Len(out) - Len(last) + 1, Len(out)) = last
        /\ Count(CR, out) = CountInLines(CR, lines)
        /\ ~HasCrLf(out)

C9_Witness ==
    /\ op = "to_text"
    /\ HasCrLf(text)
    /\ line_count(lines) >= 3
    /\ lines[Len(lines)] # <<>>
    /\ Count(LF, out) = 2

====
